---- MODULE Spec2Model ----
(***************************************************************************)
(* Session Connection Orchestrator (CollaborationRoomService) and          *)
(* Automation Control Endpoint (AutomationService) of                      *)
(* open-collaboration-vscode, as a state machine.                          *)
(*                                                                         *)
(* One action is one synchronous run of the event loop: the code between   *)
(* two awaits of one handler, together with every listener it calls        *)
(* synchronously and every continuation that has nothing left to wait for. *)
(***************************************************************************)
EXTENDS Integers, Sequences, FiniteSets, TLC

\* Number of create/join/resume attempts one run may start.
MaxAttempts == 2
\* Number of HTTP requests one run may post to the automation endpoint.
MaxRequests == 2

Attempts == 1..MaxAttempts
Requests == 1..MaxRequests

VARIABLES
    build,        \* which AutomationService source is running: "main", "p1", "p2"
    web,          \* isWeb(): the extension runs as a web extension
    editor,       \* vscode.window.activeTextEditor with its document and cursor
    procEnv,      \* process.env: OCT_AUTO_JOIN_ROOM, INSTANCE_ID, USERNAME
    activation,   \* how far activate() has come
    automation,   \* AutomationService: the port setting, this.port, this.server and
                  \* the HTTP servers it has created
    serverUrl,    \* Settings.getServerUrl(): the configured server URL, "" when unset
    serverUrlOverride, \* Settings.getServerUrlOverride(): joins may offer to override it
    tokenSource,  \* CollaborationRoomService.tokenSource: id of the current outer source
    cancelled,    \* ids of the outer sources that have been cancelled
    att,          \* the attempts: one record per call of an orchestrator operation
    nextAttempt,  \* attempts are numbered in the order their calls arrive
    userTokens,   \* SecretStorage: server URL -> login token (0: none)
    roomData,     \* SecretStorage: the pending room data (PendingResumeRecord), or NoRoomData
    Current,      \* CollaborationInstance.Current: the attempt that built the live session, 0: none
    listeners,    \* the requests whose listener is subscribed to onDidJoinRoom
    req,          \* the HTTP requests posted to the automation endpoint
    unhandled,    \* attempts whose failure escaped as an unhandled promise rejection
    timers,       \* pending setTimeout(() => this.tryConnect(), 500) callbacks
    autoStart,    \* the timer activate() has scheduled: "join", "create" or "none"; "done"
                  \* once it has fired, "returned" once its callback has ended
    notifier      \* the run of notifyBackendWithRetry, NoNotifier before it is started

\* What the steps of the orchestrator and of the request handlers leave alone.
env == <<build, web, editor, procEnv, activation, automation, serverUrlOverride>>
vars == <<build, web, editor, procEnv, activation, automation, serverUrlOverride, autoStart, notifier, serverUrl, tokenSource, cancelled, att, nextAttempt, userTokens,
          roomData, Current, listeners, req, unhandled, timers>>

----------------------------------------------------------------------------
\* Data

Builds == {"main", "p1", "p2"}
\* Server URLs as the user or a client may write them; "" stands for undefined.
ConfiguredUrls == {"", "s1"}
OverrideUrls == {"", "s2/"}
Urls == {"s1", "s1/", "s2", "s2/"}

Interactive == {"createRoom", "joinRoom"}
Silent == {"createRoomSilent", "joinRoomSilent"}
AutoAuth == {"createRoomWithAutoAuth", "joinRoomWithAutoAuth"}
Creates == {"createRoom", "createRoomSilent", "createRoomWithAutoAuth"}
Joins == {"joinRoom", "joinRoomSilent", "joinRoomWithAutoAuth"}

\* Positions at which an attempt waits for an awaited call.
AwaitPcs == {"input", "retrieve", "consume", "provider", "exchange", "storeToken",
             "storeRoomData", "connect", "clipboard", "workspace", "open"}
\* Positions inside the withProgress task of an interactive attempt.
ProgressPcs == {"exchange", "storeToken", "storeRoomData", "connect", "clipboard",
                "workspace", "open"}

NoRoomData == [serverUrl |-> "", roomToken |-> 0, roomId |-> 0, host |-> 0]

\* No override prompt. pc: "open" while the message is shown, "writing" while
\* the setting the answer asked for is being updated, "done" after that.
NoAsk == [pc |-> "none", url |-> "", choice |-> "none"]

\* No CollaborationInstance.
NoSession == [by |-> 0, roomId |-> 0, serverUrl |-> "", host |-> FALSE]

\* parsedUrl: the server URL of the invitation code; ask: the override prompt;
\* session: the instance the attempt has constructed; remapped: whether its
\* workspace remap took effect; settled: the promise the operation returned to
\* its caller has settled.
NoAttempt == [kind |-> "none", req |-> 0, pc |-> "idle", url |-> "", roomId |-> 0,
              roomToken |-> 0, login |-> 0, outer |-> 0, inner |-> FALSE,
              aborted |-> FALSE, shown |-> <<>>, failedAt |-> "none",
              outcome |-> "none", fired |-> 0, live |-> 0,
              parsedUrl |-> "", ask |-> NoAsk,
              session |-> NoSession, remapped |-> FALSE, settled |-> FALSE]

NoCode == [form |-> "none", serverUrl |-> "", roomId |-> 0]
\* roomId: "" in a request.
EmptyCode == [form |-> "empty", serverUrl |-> "", roomId |-> 0]
\* !roomId
Falsy(code) == code.form \in {"none", "empty"}
\* The context of a host-context response; startLine -1: no context in the body.
NoContext == [startLine |-> -1, endLine |-> -1, totalLines |-> 0, cursorLine |-> -1,
              lines |-> <<>>]
\* No active text editor.
NoEditor == [open |-> FALSE, inWorkspace |-> FALSE, totalLines |-> 0, cursorLine |-> 0]

\* before: the server URL setting when the request arrived.
NoRequest == [method |-> "", url |-> "", action |-> "none", code |-> NoCode,
              serverUrl |-> "", originalUrl |-> "", before |-> "",
              pc |-> "new", att |-> 0, status |-> 0, success |-> FALSE,
              bodyRoomId |-> 0, bodyServerUrl |-> "", error |-> "", by |-> 0,
              bare |-> FALSE, context |-> NoContext]

\* process.env as activate() reads it. OCT_AUTO_JOIN_ROOM: "" when undefined or
\* empty, " " when it holds white space only, else the room; INSTANCE_ID and
\* USERNAME: whether they hold a non-empty string.
ProcEnvs == [autoJoinRoom : {"", " ", "9"}, instanceId : BOOLEAN, username : BOOLEAN]
PlainEnv == [autoJoinRoom |-> "", instanceId |-> FALSE, username |-> FALSE]
TeacherEnv == [autoJoinRoom |-> "9", instanceId |-> FALSE, username |-> FALSE]
StudentEnv == [autoJoinRoom |-> "", instanceId |-> TRUE, username |-> TRUE]
\* String.prototype.trim
Trim(str) == IF str = " " THEN "" ELSE str

\* activate() has not been called / has returned.
NotActivated == [pc |-> "new", att |-> 0]
Activated == [pc |-> "done", att |-> 0]

\* The room id the server issues for the create exchange of attempt a: fresh per exchange.
IssuedRoom(a) == 10 + a
\* The room token of the exchange of attempt a.
IssuedToken(a) == 20 + a
\* The host peer of a room, as the join exchange reports it.
HostOf(room) == 30 + room
\* Rooms a join may name.
JoinRooms == {9}

Started(a) == att[a].kind # "none"
Resolved(a) == att[a].pc = "done"
Unresolved == {a \in Attempts : Started(a) /\ ~Resolved(a)}

----------------------------------------------------------------------------
\* Pure helpers

\* RoomUri.normalizeServerUri: strips the trailing slash of a server URL.
normalizeServerUri(u) ==
    CASE u = "s1/" -> "s1"
      [] u = "s2/" -> "s2"
      [] OTHER -> u

\* RoomUri.parse: an invitation code is a bare room id, a URL with the room id as
\* its fragment, or malformed (parse throws).
InvitationCodes == {[form |-> "id", serverUrl |-> "", roomId |-> 9],
                    [form |-> "uri", serverUrl |-> "s2/", roomId |-> 9],
                    [form |-> "invalid", serverUrl |-> "", roomId |-> 0]}
RoomUriParse(code) ==
    [ok |-> code.form # "invalid", roomId |-> code.roomId,
     serverUrl |-> normalizeServerUri(code.serverUrl)]

\* withConnectionProvider, lines 355-359: the server URL the attempt uses.
withConnectionProviderUrl(url, configured) ==
    IF url # "" THEN normalizeServerUri(url) ELSE configured

\* A combined signal that follows the outer token only.
toAbortSignalOuterOnly(outerToken, cancelToken) ==
    {<<"outer", outerToken>>}

\* toAbortSignal: the tokens whose cancellation aborts the controller.
toAbortSignal(outerToken, cancelToken) ==
    {<<"outer", outerToken>>, <<"inner", cancelToken>>}

\* An error report that looks at the caller's token before the outer token.
showErrorCallerFirst(create, outerCancelled, innerCancelled) ==
    IF innerCancelled THEN [outcome |-> "cancelled", shown |-> <<"info:cancelled">>]
    ELSE IF outerCancelled THEN [outcome |-> "ignored", shown |-> <<>>]
    ELSE IF create THEN [outcome |-> "failed", shown |-> <<"error:create">>]
    ELSE [outcome |-> "failed", shown |-> <<"error:join">>]

\* showError: what is shown for a failure of an interactive attempt.
showError(create, outerCancelled, innerCancelled) ==
    IF outerCancelled THEN [outcome |-> "ignored", shown |-> <<>>]
    ELSE IF innerCancelled THEN [outcome |-> "cancelled", shown |-> <<"info:cancelled">>]
    ELSE IF create THEN [outcome |-> "failed", shown |-> <<"error:create">>]
    ELSE [outcome |-> "failed", shown |-> <<"error:join">>]

\* The attempts whose abort controller listens on token tok.
Listening(tok) ==
    {b \in Attempts : /\ att[b].kind \in Interactive
                      /\ att[b].outer # 0
                      /\ tok \in toAbortSignal(att[b].outer, b)}

----------------------------------------------------------------------------
\* The automation endpoint's side of an orchestrator event (AutomationService)

\* A response that is sent with status 200 whatever its body says.
RespondOk(rq, success, roomId, url, error, by) ==
    [rq EXCEPT !.pc = "responded",
               !.status = 200,
               !.success = success,
               !.bodyRoomId = roomId,
               !.bodyServerUrl = url,
               !.error = error,
               !.by = by]

\* sendResponse(res, response.success ? 200 : 400, response), once per request.
Respond(rq, success, roomId, url, error, by) ==
    [rq EXCEPT !.pc = "responded",
               !.status = IF success THEN 200 ELSE 400,
               !.success = success,
               !.bodyRoomId = roomId,
               !.bodyServerUrl = url,
               !.error = error,
               !.by = by]

\* resolve(...) of the promise of handleCreateRoom / handleJoinRoom. A promise
\* settles once. In automation-service.ts the handler first awaits
\* Settings.setServerUrl(originalUrl) when the request overrode the server URL.
Settle(rq, success, roomId, url, error, by) ==
    IF rq.pc # "waiting" THEN rq
    ELSE IF build = "main" /\ rq.serverUrl # "" /\ rq.originalUrl # ""
    THEN [Respond(rq, success, roomId, url, error, by) EXCEPT !.pc = "restore"]
    ELSE Respond(rq, success, roomId, url, error, by)

\* onDidJoinRoomEmitter.fire(instance): every subscribed listener runs, disposes
\* itself and resolves its request with the instance it was handed.
AfterFire(R, inst) ==
    [r \in Requests |->
        IF r \in listeners
        THEN Settle(R[r], TRUE, inst.roomId, inst.serverUrl, "", inst.by)
        ELSE R[r]]

\* The caller's continuation when the promise of attempt a settles as rec says.
\*   part_001 handleCreateRoom awaits createRoomSilent() and answers from its value;
\*   joinRoom(roomId).catch and the ...WithAutoAuth(...).catch answer a rejection;
\*   createRoom() never rejects (it does not await withConnectionProvider).
CallerCatches(rec) ==
    /\ rec.req # 0
    /\ rec.outcome = "rejected"
    /\ rec.kind \in {"joinRoom"} \cup AutoAuth
AfterSettle(R, a, rec) ==
    IF rec.req = 0 THEN R
    ELSE IF rec.kind = "createRoomSilent"
    THEN [R EXCEPT ![rec.req] =
            IF rec.outcome = "returned"
            THEN Respond(@, TRUE, rec.roomId, rec.url, "", a)
            ELSE Respond(@, FALSE, 0, "", "Failed to create room", a)]
    ELSE IF CallerCatches(rec)
    THEN [R EXCEPT ![rec.req] = Settle(@, FALSE, 0, "", "rejected", a)]
    ELSE R

----------------------------------------------------------------------------
\* Calls of the orchestrator's operations: the synchronous part of each, up to
\* its first await. Each yields the record of the new attempt.

\* showServerUrlMissingError
NoServer(rec) ==
    [rec EXCEPT !.pc = "done", !.outcome = "abandoned", !.shown = <<"info:no-server">>]

\* createRoom(): withConnectionProvider(undefined, ...) is not awaited, so the
\* async function returns, and its promise settles, in the run of the call.
createRoom(r, configured) ==
    LET url == withConnectionProviderUrl("", configured)
        rec == [NoAttempt EXCEPT !.kind = "createRoom", !.req = r, !.settled = TRUE]
    IN  IF url # ""
        THEN [rec EXCEPT !.pc = "provider", !.url = url]
        ELSE NoServer(rec)

\* A prompt that is offered whatever the override setting says.
askToOverrideServerUrlAlways(url, currentSetting) ==
    IF currentSetting = url
    THEN NoAsk
    ELSE [pc |-> "open", url |-> url, choice |-> "none"]

\* askToOverrideServerUrl, lines 379-388, up to its await: the message is shown
\* unless the setting is the URL already or the override is disabled.
askToOverrideServerUrl(url, currentSetting) ==
    IF currentSetting = url \/ ~serverUrlOverride
    THEN NoAsk
    ELSE [pc |-> "open", url |-> url, choice |-> "none"]

\* joinRoom, lines 259-272, once the invitation code is known.
joinRoomParsed(rec, code, configured) ==
    LET roomUri == RoomUriParse(code)
        url == withConnectionProviderUrl(roomUri.serverUrl, configured)
        asked == IF roomUri.ok /\ roomUri.serverUrl # ""
                 THEN [rec EXCEPT !.parsedUrl = roomUri.serverUrl,
                                  !.ask = askToOverrideServerUrl(roomUri.serverUrl,
                                                                 configured)]
                 ELSE rec
    IN  IF ~roomUri.ok
        THEN [rec EXCEPT !.pc = "done", !.outcome = "abandoned",
                         !.shown = <<"error:invalid-code">>]
        ELSE IF url = ""
        THEN NoServer([asked EXCEPT !.roomId = roomUri.roomId])
        ELSE [asked EXCEPT !.pc = "provider", !.url = url, !.roomId = roomUri.roomId]

\* joinRoom(roomId?): without a room id the input box is awaited first.
joinRoom(r, given, code, configured) ==
    LET rec == [NoAttempt EXCEPT !.kind = "joinRoom", !.req = r]
    IN  IF given THEN joinRoomParsed(rec, code, configured) ELSE [rec EXCEPT !.pc = "input"]

\* A silent create that uses the configured URL as it is written.
createRoomSilentAsConfigured(r) ==
    LET rec == [NoAttempt EXCEPT !.kind = "createRoomSilent", !.req = r]
    IN  IF serverUrl = ""
        THEN [rec EXCEPT !.pc = "done", !.outcome = "undefined"]
        ELSE [rec EXCEPT !.pc = "retrieve", !.url = serverUrl]

\* createRoomSilent(), lines 108-119.
createRoomSilent(r) ==
    LET rec == [NoAttempt EXCEPT !.kind = "createRoomSilent", !.req = r]
    IN  IF serverUrl = ""
        THEN [rec EXCEPT !.pc = "done", !.outcome = "undefined"]
        ELSE [rec EXCEPT !.pc = "retrieve", !.url = normalizeServerUri(serverUrl)]

\* joinRoomSilent(roomId), lines 170-181.
joinRoomSilent(r, roomId) ==
    LET rec == [NoAttempt EXCEPT !.kind = "joinRoomSilent", !.req = r,
                                 !.roomId = roomId]
    IN  IF serverUrl = ""
        THEN [rec EXCEPT !.pc = "done", !.outcome = "false"]
        ELSE [rec EXCEPT !.pc = "retrieve", !.url = normalizeServerUri(serverUrl)]

\* createRoomWithAutoAuth / joinRoomWithAutoAuth (called by part_002): the silent
\* operations of the specification, with the server URL override as a parameter;
\* a failure rejects the returned promise.
withAutoAuth(r, kind, roomId, override) ==
    LET url == withConnectionProviderUrl(override, serverUrl)
        rec == [NoAttempt EXCEPT !.kind = kind, !.req = r, !.roomId = roomId]
    IN  IF url = ""
        THEN [rec EXCEPT !.pc = "done", !.outcome = "rejected"]
        ELSE [rec EXCEPT !.pc = "retrieve", !.url = url]

\* tryConnect(), line 42.
tryConnect ==
    [NoAttempt EXCEPT !.kind = "tryConnect", !.pc = "consume"]

----------------------------------------------------------------------------
\* notifyBackendWithRetry (activate's auto-create branch)

maxRetries == 20
initialDelay == 1000
maxDelay == 30000

Min(x, y) == IF x <= y THEN x ELSE y

\* The parameters of a call: the instance id, the room id and the server URL.
NoParams == [instanceId |-> FALSE, roomId |-> 0, serverUrl |-> ""]

\* params: the parameters the call was made with; sent: the requests issued so
\* far; liveAt: the live session at the time each was issued.
NoNotifier == [pc |-> "idle", of |-> 0, starts |-> 0, attempt |-> 0, requests |-> 0,
               delays |-> <<>>, last |-> "none", outcome |-> "none",
               params |-> NoParams, sent |-> <<>>, liveAt |-> <<>>]

\* Line 1101: the registry URL, built once from the instance id.
backendUrl(instanceId) == <<"http://backend:9000/api/cloud-ide", instanceId, "oct-session">>

\* A request that is built from the live session and the server URL setting.
fetchRequestOfLiveSession(n) ==
    [url |-> backendUrl(n.params.instanceId),
     roomId |-> IF Current = 0 THEN n.params.roomId ELSE att[Current].roomId,
     serverUrl |-> normalizeServerUri(serverUrl)]

\* Lines 1114-1124: the POST of one attempt, built from the parameters.
fetchRequest(n) ==
    [url |-> backendUrl(n.params.instanceId),
     roomId |-> n.params.roomId,
     serverUrl |-> n.params.serverUrl]

\* The task issues its next request while session live is the live one.
Issue(n, live) ==
    [n EXCEPT !.pc = "fetch", !.attempt = @ + 1, !.requests = @ + 1,
              !.sent = Append(@, fetchRequest(n)), !.liveAt = Append(@, live)]

\* A backoff that doubles on the scale of the attempt number itself.
backoffDelayLate(attempt) ==
    Min(initialDelay * 2^attempt, maxDelay)

\* Math.min(initialDelay * Math.pow(2, attempt - 1), maxDelay): the wait after
\* failed attempt number attempt.
backoffDelay(attempt) ==
    Min(initialDelay * 2^(attempt - 1), maxDelay)

\* The call of notifyBackendWithRetry up to its first await: the loop is entered
\* and the first request is issued.
notifyBackendWithRetry(a, instanceId, roomId, url) ==
    Issue([NoNotifier EXCEPT !.of = a, !.starts = notifier.starts + 1,
                             !.params = [instanceId |-> instanceId, roomId |-> roomId,
                                         serverUrl |-> url]],
          a)

\* activate(), lines 1218-1227: createRoomSilent() has returned a room to the
\* auto-create callback; the notifier is started and not awaited.
AfterAutoCreate(a, rec) ==
    IF rec.kind = "createRoomSilent" /\ rec.req = 0
    THEN notifyBackendWithRetry(a, procEnv.instanceId, rec.roomId, rec.url)
    ELSE notifier

\* A callback that awaits the notifier it starts.
AfterCallbackAwaiting(rec) ==
    IF rec.req = 0 /\ rec.kind \in Silent
    THEN IF rec.pc = "done" /\ ~(rec.kind = "createRoomSilent" /\ rec.outcome = "returned")
         THEN "returned" ELSE "done"
    ELSE autoStart

\* activate(), lines 1191-1209 and 1215-1231: the timer callback awaits the silent
\* operation only; it ends in the run in which that operation settles.
AfterCallback(rec) ==
    IF rec.req = 0 /\ rec.kind \in Silent
    THEN IF rec.pc = "done" THEN "returned" ELSE "done"
    ELSE autoStart

----------------------------------------------------------------------------
\* Building blocks of the actions

\* instanceFactory(...): the new instance becomes CollaborationInstance.Current.
instanceFactory(a) == a

Instance(a, rec, host) ==
    [by |-> a, roomId |-> rec.roomId, serverUrl |-> rec.url, host |-> host]

\* An async function that has run to its end has settled its promise.
Returned(rec) == [rec EXCEPT !.settled = @ \/ rec.pc = "done"]

\* Attempt a moves on to rec; when rec is resolved its promise settles and the
\* caller continues. With fire, inst is fired on onDidJoinRoomEmitter first.
Advance(a, rec, fire, inst) ==
    /\ att' = [att EXCEPT ![a] = Returned(IF fire THEN [rec EXCEPT !.fired = @ + 1] ELSE rec)]
    /\ req' = LET R == IF fire THEN AfterFire(req, inst) ELSE req
              IN  IF rec.pc = "done" THEN AfterSettle(R, a, rec) ELSE R
    /\ listeners' = (IF fire THEN {} ELSE listeners)
                        \ (IF rec.pc = "done" /\ CallerCatches(rec) THEN {rec.req} ELSE {})

\* A new call arrives: its attempt takes the next number. The attempt remembers
\* the session that was live when it was called.
Call(rec, R, L) ==
    /\ nextAttempt \in Attempts
    /\ att' = [att EXCEPT ![nextAttempt] = Returned([rec EXCEPT !.live = Current])]
    /\ nextAttempt' = nextAttempt + 1
    /\ req' = IF rec.pc = "done" THEN AfterSettle(R, nextAttempt, rec) ELSE R
    /\ listeners' = L \ (IF rec.pc = "done" /\ CallerCatches(rec) THEN {rec.req} ELSE {})

\* cancel() of outer source src: every controller listening on it aborts.
AbortOn(A, tok) ==
    [b \in Attempts |-> IF b \in Listening(tok) THEN [A[b] EXCEPT !.aborted = TRUE] ELSE A[b]]

----------------------------------------------------------------------------
\* Steps of an attempt: the awaited call at att[a].pc has resolved.

\* An input box whose answer, or dismissal, takes the outer source first.
InputBoxCancels(a) ==
    /\ att[a].pc = "input"
    /\ cancelled' = cancelled \cup {tokenSource}
    /\ tokenSource' = tokenSource + 1
    /\ \E entered \in BOOLEAN, code \in InvitationCodes :
         att' = [AbortOn(att, <<"outer", tokenSource>>) EXCEPT ![a] =
                    Returned(IF entered THEN joinRoomParsed(@, code, serverUrl)
                             ELSE [@ EXCEPT !.pc = "done", !.outcome = "abandoned"])]
    /\ UNCHANGED <<env, notifier, autoStart, serverUrl, nextAttempt, userTokens,
                   roomData, Current, listeners, req, unhandled, timers>>

\* joinRoom, lines 253-257: the input box is answered or dismissed.
InputBox(a) ==
    /\ att[a].pc = "input"
    /\ \E entered \in BOOLEAN, code \in InvitationCodes :
         att' = [att EXCEPT ![a] =
                    Returned(IF entered THEN joinRoomParsed(@, code, serverUrl)
                             ELSE [@ EXCEPT !.pc = "done", !.outcome = "abandoned"])]
    /\ UNCHANGED <<env, notifier, autoStart, serverUrl, tokenSource, cancelled, nextAttempt, userTokens,
                   roomData, Current, listeners, req, unhandled, timers>>

\* createRoomSilent line 119, joinRoomSilent line 181: retrieveUserToken resolved.
RetrieveDone(a) ==
    /\ att[a].pc = "retrieve"
    /\ att' = [att EXCEPT ![a].pc = "provider"]
    /\ UNCHANGED <<env, notifier, autoStart, serverUrl, tokenSource, cancelled, nextAttempt, userTokens,
                   roomData, Current, listeners, req, unhandled, timers>>

\* withConnectionProvider line 362 with the callbacks of createRoom (lines 61-69)
\* and joinRoom (lines 273-283): the previous outer source is cancelled, a new one
\* takes its place, and the exchange is issued with the combined abort signal.
Callback(a) ==
    /\ att[a].pc = "provider"
    /\ att[a].kind \in Interactive
    /\ cancelled' = cancelled \cup {tokenSource}
    /\ tokenSource' = tokenSource + 1
    /\ att' = [AbortOn(att, <<"outer", tokenSource>>) EXCEPT
                  ![a] = [@ EXCEPT !.pc = "exchange", !.outer = tokenSource + 1]]
    /\ UNCHANGED <<env, notifier, autoStart, serverUrl, nextAttempt, userTokens, roomData, Current,
                   listeners, req, unhandled, timers>>

\* A silent operation that takes the outer source as the interactive ones do.
ProviderDoneCancels(a) ==
    /\ att[a].pc = "provider"
    /\ att[a].kind \notin Interactive
    /\ cancelled' = cancelled \cup {tokenSource}
    /\ tokenSource' = tokenSource + 1
    /\ att' = [AbortOn(att, <<"outer", tokenSource>>) EXCEPT
                  ![a].pc = IF att[a].kind = "tryConnect" THEN "connect" ELSE "exchange"]
    /\ UNCHANGED <<env, notifier, autoStart, serverUrl, nextAttempt, userTokens, roomData, Current,
                   listeners, req, unhandled, timers>>

\* createConnectionSilent (lines 123, 185) or tryConnect's createConnection
\* (line 44) resolved.
ProviderDone(a) ==
    /\ att[a].pc = "provider"
    /\ att[a].kind \notin Interactive
    /\ att' = [att EXCEPT ![a].pc = IF att[a].kind = "tryConnect" THEN "connect"
                                    ELSE "exchange"]
    /\ UNCHANGED <<env, notifier, autoStart, serverUrl, tokenSource, cancelled, nextAttempt, userTokens,
                   roomData, Current, listeners, req, unhandled, timers>>

\* connectionProvider.createRoom / joinRoom returned a room claim. An exchange
\* whose abort signal has fired does not return: it throws.
\* ConnectionProvider: the exchange stops waiting once its signal is aborted,
\* so it hands out a room claim only while the signal is not aborted.
HonoursSignal(rec) == ~rec.aborted

\* A continuation that never stores the login token.
AfterExchangeSkipsStore(rec) ==
    IF rec.kind \in Creates THEN "connect" ELSE "storeRoomData"

\* Lines 70-74, 133-139, 195-207, 284-294: a login token is stored first.
AfterExchange(rec) ==
    IF rec.login # 0 THEN "storeToken"
    ELSE IF rec.kind \in Creates THEN "connect" ELSE "storeRoomData"

\* An exchange that returns its room claim although its signal was aborted.
ExchangeOkDespiteAbort(a) ==
    /\ att[a].pc = "exchange"
    /\ \E login \in {0, 40 + a} :
         LET claim == [att[a] EXCEPT
                          !.roomId = IF att[a].kind \in Creates THEN IssuedRoom(a) ELSE @,
                          !.roomToken = IssuedToken(a),
                          !.login = login]
         IN  att' = [att EXCEPT ![a] = [claim EXCEPT !.pc = AfterExchange(claim)]]
    /\ UNCHANGED <<env, notifier, autoStart, serverUrl, tokenSource, cancelled, nextAttempt, userTokens,
                   roomData, Current, listeners, req, unhandled, timers>>

\* Lines 66-69, 129, 189, 279-283: the exchange returns a room claim; under an
\* aborted signal it throws instead.
ExchangeOk(a) ==
    /\ att[a].pc = "exchange"
    /\ HonoursSignal(att[a])
    /\ \E login \in {0, 40 + a} :
         LET claim == [att[a] EXCEPT
                          !.roomId = IF att[a].kind \in Creates THEN IssuedRoom(a) ELSE @,
                          !.roomToken = IssuedToken(a),
                          !.login = login]
         IN  att' = [att EXCEPT ![a] = [claim EXCEPT !.pc = AfterExchange(claim)]]
    /\ UNCHANGED <<env, notifier, autoStart, serverUrl, tokenSource, cancelled, nextAttempt, userTokens,
                   roomData, Current, listeners, req, unhandled, timers>>

\* secretStore.storeUserToken(url, loginToken) resolved.
StoreTokenDone(a) ==
    /\ att[a].pc = "storeToken"
    /\ userTokens' = [userTokens EXCEPT ![att[a].url] = att[a].login]
    /\ att' = [att EXCEPT ![a].pc = IF att[a].kind \in Creates THEN "connect"
                                    ELSE "storeRoomData"]
    /\ UNCHANGED <<env, notifier, autoStart, serverUrl, tokenSource, cancelled, nextAttempt, roomData,
                   Current, listeners, req, unhandled, timers>>

\* connectionProvider.connect(roomToken) resolved: the instance is built.
\*   createRoom, lines 74-81: then awaits the clipboard write;
\*   createRoomSilent, lines 139-154, and tryConnect, lines 45-54: fire and return;
\*   the auto-create callback of activate() continues with the returned room.
ConnectOk(a) ==
    /\ att[a].pc = "connect"
    /\ Current' = instanceFactory(a)
    /\ IF att[a].kind = "createRoom"
       THEN /\ Advance(a, [att[a] EXCEPT !.pc = "clipboard",
                                         !.session = Instance(a, att[a], TRUE)],
                       FALSE, {})
            /\ UNCHANGED <<notifier, autoStart>>
       ELSE LET rec == [att[a] EXCEPT !.pc = "done", !.outcome = "returned",
                                     !.session = Instance(a, att[a], att[a].kind \in Creates)]
            IN  /\ Advance(a, rec, TRUE, rec.session)
                /\ notifier' = AfterAutoCreate(a, rec)
                /\ autoStart' = AfterCallback(rec)
    /\ UNCHANGED <<env, serverUrl, tokenSource, cancelled, nextAttempt, userTokens,
                   roomData, unhandled, timers>>

\* A create that shows its success message and fires nothing.
ClipboardDoneNoFire(a) ==
    /\ att[a].pc = "clipboard"
    /\ LET rec == [att[a] EXCEPT !.pc = "done", !.outcome = "joined",
                                 !.shown = Append(@, "info:created")]
       IN  Advance(a, rec, FALSE, rec.session)
    /\ UNCHANGED <<env, notifier, autoStart, serverUrl, tokenSource, cancelled, nextAttempt, userTokens,
                   roomData, Current, unhandled, timers>>

\* createRoom, lines 81-95: the success message is shown and "joined" is fired.
ClipboardDone(a) ==
    /\ att[a].pc = "clipboard"
    /\ LET rec == [att[a] EXCEPT !.pc = "done", !.outcome = "joined",
                                 !.shown = Append(@, "info:created")]
       IN  Advance(a, rec, TRUE, rec.session)
    /\ UNCHANGED <<env, notifier, autoStart, serverUrl, tokenSource, cancelled, nextAttempt, userTokens,
                   roomData, Current, unhandled, timers>>

\* secretStore.storeRoomData(roomData) resolved (joinRoom line 294,
\* joinRoomSilent line 207).
StoreRoomDataDone(a) ==
    /\ att[a].pc = "storeRoomData"
    /\ roomData' = [serverUrl |-> att[a].url, roomToken |-> att[a].roomToken,
                    roomId |-> att[a].roomId, host |-> HostOf(att[a].roomId)]
    /\ att' = [att EXCEPT ![a].pc = "workspace"]
    /\ UNCHANGED <<env, notifier, autoStart, serverUrl, tokenSource, cancelled, nextAttempt, userTokens,
                   Current, listeners, req, unhandled, timers>>

\* The workspace has been remapped and the join returns.
\*   joinRoom, lines 310-327: success is the result of the remap; in web mode a
\*     successful join schedules tryConnect;
\*   joinRoomSilent, line 239: returns true;
\*   joinRoomWithAutoAuth: the session is published as for a create.
JoinDone(a, success) ==
    LET k == att[a].kind
        rec == [att[a] EXCEPT !.pc = "done",
                              !.outcome = IF k = "joinRoom" /\ ~success THEN "false"
                                          ELSE "true",
                              !.remapped = success,
                              !.session = IF k = "joinRoomWithAutoAuth"
                                          THEN Instance(a, att[a], FALSE) ELSE @]
    IN  /\ timers' = IF k = "joinRoom" /\ success /\ web THEN timers + 1 ELSE timers
        /\ Current' = IF k = "joinRoomWithAutoAuth" THEN instanceFactory(a) ELSE Current
        /\ Advance(a, rec, k = "joinRoomWithAutoAuth", rec.session)
        /\ autoStart' = AfterCallback(rec)
        /\ UNCHANGED <<env, notifier, serverUrl, tokenSource, cancelled, nextAttempt,
                       userTokens, roomData, unhandled>>

\* storeWorkspace resolved (joinRoom line 301, joinRoomSilent line 221): with a
\* workspace file the OpenFolder command is awaited; without one the workspace
\* folders are updated in place.
StoreWorkspaceDone(a) ==
    /\ att[a].pc = "workspace"
    /\ \/ /\ att' = [att EXCEPT ![a].pc = "open"]
          /\ UNCHANGED <<env, notifier, autoStart, serverUrl, tokenSource, cancelled, nextAttempt,
                         userTokens, roomData, Current, listeners, req,
                         unhandled, timers>>
       \/ \E updated \in BOOLEAN : JoinDone(a, updated)

\* executeCommand(OpenFolder) resolved (joinRoom line 305, joinRoomSilent line 226).
OpenFolderDone(a) ==
    /\ att[a].pc = "open"
    /\ JoinDone(a, TRUE)

\* SecretStorage.consumeRoomData: the stored room data are handed out and the
\* store is cleared.
consumeRoomData(stored) == [value |-> stored, left |-> NoRoomData]

\* A resume that reads the room data and leaves them in the store.
ConsumeDoneKeeps(a) ==
    /\ att[a].pc = "consume"
    /\ roomData' = roomData
    /\ att' = [att EXCEPT ![a] =
                  IF roomData # NoRoomData
                  THEN [@ EXCEPT !.pc = "provider", !.url = roomData.serverUrl,
                                 !.roomId = roomData.roomId,
                                 !.roomToken = roomData.roomToken]
                  ELSE [@ EXCEPT !.pc = "done", !.outcome = "undefined",
                                 !.settled = TRUE]]
    /\ UNCHANGED <<env, notifier, autoStart, serverUrl, tokenSource, cancelled, nextAttempt, userTokens,
                   Current, listeners, req, unhandled, timers>>

\* secretStore.consumeRoomData() resolved (tryConnect, lines 42-43 and 56).
ConsumeDone(a) ==
    /\ att[a].pc = "consume"
    /\ roomData' = consumeRoomData(roomData).left
    /\ att' = [att EXCEPT ![a] =
                  LET stored == consumeRoomData(roomData).value
                  IN  IF stored # NoRoomData
                      THEN [@ EXCEPT !.pc = "provider", !.url = stored.serverUrl,
                                     !.roomId = stored.roomId,
                                     !.roomToken = stored.roomToken]
                      ELSE [@ EXCEPT !.pc = "done", !.outcome = "undefined",
                                     !.settled = TRUE]]
    /\ UNCHANGED <<env, notifier, autoStart, serverUrl, tokenSource, cancelled, nextAttempt, userTokens,
                   Current, listeners, req, unhandled, timers>>

\* The awaited call at att[a].pc rejects.
\*   Inside the try of createRoom / joinRoom: showError (lines 96-98, 314-316).
\*   createConnection of createRoom / joinRoom (line 361) is outside every try:
\*     the promise of withConnectionProvider rejects; createRoom has dropped it.
\*   createRoomSilent / joinRoomSilent: caught, undefined / false is returned.
\*   tryConnect has no try: its promise rejects; the timer callback has dropped
\*     it, activate() awaits it.
Failure(rec) ==
    LET k == rec.kind
        base == [rec EXCEPT !.pc = "done", !.failedAt = rec.pc]
    IN  IF k \in Interactive /\ rec.pc \in ProgressPcs
        THEN LET e == showError(k = "createRoom", rec.outer \in cancelled, rec.inner)
             IN  [base EXCEPT !.outcome = e.outcome, !.shown = @ \o e.shown]
        ELSE IF k = "createRoomSilent" THEN [base EXCEPT !.outcome = "undefined"]
        ELSE IF k = "joinRoomSilent" THEN [base EXCEPT !.outcome = "false"]
        ELSE [base EXCEPT !.outcome = "rejected"]
\* A failure path that also disposes the live session.
ThrowDisposes(a) ==
    /\ att[a].pc \in AwaitPcs \ {"input", "clipboard"}
    /\ LET rec == Failure(att[a])
       IN  /\ Advance(a, rec, FALSE, {})
           /\ unhandled' = IF /\ rec.outcome = "rejected"
                              /\ rec.kind \in {"createRoom", "tryConnect"}
                              /\ a # activation.att
                           THEN unhandled \cup {a} ELSE unhandled
           /\ autoStart' = AfterCallback(rec)
    /\ Current' = 0
    /\ UNCHANGED <<env, notifier, serverUrl, tokenSource, cancelled, nextAttempt, userTokens,
                   roomData, timers>>

Throw(a) ==
    /\ att[a].pc \in AwaitPcs \ {"input", "clipboard"}
    /\ LET rec == Failure(att[a])
       IN  /\ Advance(a, rec, FALSE, {})
           /\ unhandled' = IF /\ rec.outcome = "rejected"
                              /\ rec.kind \in {"createRoom", "tryConnect"}
                              /\ a # activation.att
                           THEN unhandled \cup {a} ELSE unhandled
           /\ autoStart' = AfterCallback(rec)
    /\ UNCHANGED <<env, notifier, serverUrl, tokenSource, cancelled, nextAttempt, userTokens,
                   roomData, Current, timers>>

\* The user presses Cancel on the progress notification of attempt a.
UserCancel(a) ==
    /\ att[a].kind \in Interactive
    /\ att[a].pc \in ProgressPcs
    /\ ~att[a].inner
    /\ att' = [AbortOn(att, <<"inner", a>>) EXCEPT ![a].inner = TRUE]
    /\ UNCHANGED <<env, notifier, autoStart, serverUrl, tokenSource, cancelled, nextAttempt, userTokens,
                   roomData, Current, listeners, req, unhandled, timers>>

\* askToOverrideServerUrl, lines 388-393: the message of attempt a is answered
\* or dismissed. "Yes" and "Never" start the update of a setting; the update
\* is not awaited.
PromptAnswered(a) ==
    /\ att[a].ask.pc = "open"
    /\ \E choice \in {"yes", "no", "never", "dismissed"} :
         att' = [att EXCEPT ![a].ask =
                    [@ EXCEPT !.choice = choice,
                              !.pc = IF choice \in {"yes", "never"} THEN "writing"
                                     ELSE "done"]]
    /\ UNCHANGED <<env, notifier, autoStart, serverUrl, tokenSource, cancelled, nextAttempt, userTokens,
                   roomData, Current, listeners, req, unhandled, timers>>

\* Settings.setServerUrl(url) (line 390) or Settings.setServerUrlOverride(false)
\* (line 392) of attempt a has updated its setting.
SettingWritten(a) ==
    /\ att[a].ask.pc = "writing"
    /\ att' = [att EXCEPT ![a].ask.pc = "done"]
    /\ serverUrl' = IF att[a].ask.choice = "yes" THEN att[a].ask.url ELSE serverUrl
    /\ serverUrlOverride' = IF att[a].ask.choice = "never" THEN FALSE
                            ELSE serverUrlOverride
    /\ UNCHANGED <<build, web, editor, procEnv, activation, automation, notifier,
                   autoStart, tokenSource, cancelled, nextAttempt, userTokens,
                   roomData, Current, listeners, req, unhandled, timers>>

\* joinRoom, lines 324-326: the 500 ms timer fires and calls tryConnect.
TimerFires ==
    /\ timers > 0
    /\ timers' = timers - 1
    /\ Call(tryConnect, req, listeners)
    /\ UNCHANGED <<env, notifier, autoStart, serverUrl, tokenSource, cancelled, userTokens, roomData,
                   Current, unhandled>>

----------------------------------------------------------------------------
\* Calls from the user interface and from activate()

\* The "create room" command.
UiCreateRoom ==
    /\ Call(createRoom(0, serverUrl), req, listeners)
    /\ UNCHANGED <<env, notifier, autoStart, serverUrl, tokenSource, cancelled, userTokens,
                   roomData, Current, unhandled, timers>>

\* The "join room" command: joinRoom() asks for the invitation code.
UiJoinRoom ==
    /\ Call(joinRoom(0, FALSE, NoCode, serverUrl), req, listeners)
    /\ UNCHANGED <<env, notifier, autoStart, serverUrl, tokenSource, cancelled, userTokens,
                   roomData, Current, unhandled, timers>>

\* activate(), lines 1191-1209: the auto-join timer fires.
AutoJoin ==
    /\ autoStart = "join"
    /\ \E room \in JoinRooms :
         /\ autoStart' = AfterCallback(joinRoomSilent(0, room))
         /\ Call(joinRoomSilent(0, room), req, listeners)
    /\ UNCHANGED <<env, notifier, serverUrl, tokenSource, cancelled, userTokens, roomData,
                   Current, unhandled, timers>>

\* activate(), lines 1215-1231: the auto-create timer fires.
AutoCreate ==
    /\ autoStart = "create"
    /\ autoStart' = AfterCallback(createRoomSilent(0))
    /\ Call(createRoomSilent(0), req, listeners)
    /\ UNCHANGED <<env, notifier, serverUrl, tokenSource, cancelled, userTokens, roomData,
                   Current, unhandled, timers>>

----------------------------------------------------------------------------
\* Steps of notifyBackendWithRetry

\* A loop that waits and retries after the last attempt as well.
AfterFailedAttemptAlways(n, kind) ==
    [n EXCEPT !.pc = "wait", !.last = kind,
              !.delays = Append(@, backoffDelay(n.attempt))]

\* Lines 1145-1150 and 1153-1156: after a failed attempt the loop waits, or, after
\* the last attempt, logs the terminal failure and returns.
AfterFailedAttempt(n, kind) ==
    IF n.attempt < maxRetries
    THEN [n EXCEPT !.pc = "wait", !.last = kind,
                   !.delays = Append(@, backoffDelay(n.attempt))]
    ELSE [n EXCEPT !.pc = "done", !.last = kind, !.outcome = "exhausted"]

\* A loop that does not return on a 2xx response.
FetchDoneNoReturn ==
    /\ notifier.pc = "fetch"
    /\ \E result \in {"ok", "non2xx", "timeout", "network"} :
         notifier' = CASE result = "ok" ->
                            [AfterFailedAttempt(notifier, "ok") EXCEPT
                                !.outcome = "registered"]
                       [] result = "non2xx" ->
                            [notifier EXCEPT !.pc = "text", !.last = "non2xx"]
                       [] OTHER -> AfterFailedAttempt(notifier, result)
    /\ UNCHANGED <<env, autoStart, serverUrl, tokenSource, cancelled, att, nextAttempt,
                   userTokens, roomData, Current, listeners, req, unhandled, timers>>

\* Lines 1114-1143: the awaited fetch settles. A 2xx response returns; another
\* response has its text read first; a timeout (AbortError) or a network error is
\* caught and logged.
FetchDone ==
    /\ notifier.pc = "fetch"
    /\ \E result \in {"ok", "non2xx", "timeout", "network"} :
         notifier' = CASE result = "ok" ->
                            [notifier EXCEPT !.pc = "done", !.last = "ok",
                                             !.outcome = "registered"]
                       [] result = "non2xx" ->
                            [notifier EXCEPT !.pc = "text", !.last = "non2xx"]
                       [] OTHER -> AfterFailedAttempt(notifier, result)
    /\ UNCHANGED <<env, autoStart, serverUrl, tokenSource, cancelled, att, nextAttempt,
                   userTokens, roomData, Current, listeners, req, unhandled, timers>>

\* Line 1130: response.text().catch(...) resolved.
TextDone ==
    /\ notifier.pc = "text"
    /\ notifier' = AfterFailedAttempt(notifier, "non2xx")
    /\ UNCHANGED <<env, autoStart, serverUrl, tokenSource, cancelled, att, nextAttempt,
                   userTokens, roomData, Current, listeners, req, unhandled, timers>>

\* Line 1149: the backoff timer fired; the next attempt issues its request.
WaitDone ==
    /\ notifier.pc = "wait"
    /\ notifier' = Issue(notifier, Current)
    /\ UNCHANGED <<env, autoStart, serverUrl, tokenSource, cancelled, att, nextAttempt,
                   userTokens, roomData, Current, listeners, req, unhandled, timers>>

----------------------------------------------------------------------------
\* The automation endpoint: POST requests

\* Requests are numbered in the order they are posted.
NextRequest(r) ==
    /\ req[r].pc = "new"
    /\ \A q \in Requests : q < r => req[q].pc # "new"

\* handleCreateRoom / handleJoinRoom from their first line after the optional
\* await of Settings.setServerUrl: subscribe, then trigger the operation.
\*   automation-service.ts: createRoom() / joinRoom(roomId), both behind a listener;
\*   part_001: createRoomSilent() awaited, joinRoom(roomId) behind a listener;
\*   part_002: create/joinRoomWithAutoAuth behind a listener.
Operation(r, rq, configured) ==
    IF rq.action = "create"
    THEN CASE build = "main" -> createRoom(r, configured)
           [] build = "p1" -> createRoomSilent(r)
           [] OTHER -> withAutoAuth(r, "createRoomWithAutoAuth", 0, rq.serverUrl)
    ELSE CASE build \in {"main", "p1"} -> joinRoom(r, ~Falsy(rq.code), rq.code, configured)
           [] OTHER -> IF ~Falsy(rq.code) /\ RoomUriParse(rq.code).ok
                       THEN withAutoAuth(r, "joinRoomWithAutoAuth", rq.code.roomId,
                                         rq.serverUrl)
                       ELSE [NoAttempt EXCEPT !.kind = "joinRoomWithAutoAuth", !.req = r,
                                              !.pc = "done", !.outcome = "rejected"]
Subscribes(rq) == ~(build = "p1" /\ rq.action = "create")
Trigger(r, rq, configured) ==
    LET waiting == [rq EXCEPT !.pc = "waiting", !.att = nextAttempt]
    IN  Call(Operation(r, rq, configured),
             [req EXCEPT ![r] = waiting],
             IF Subscribes(rq) THEN listeners \cup {r} ELSE listeners)

\* The body of a POST: whether it is JSON at all, whether it is the JSON null,
\* and the action, roomId and serverUrl members of the object.
WellFormedBodies ==
    {[json |-> TRUE, null |-> FALSE, action |-> action,
      code |-> IF action = "join" THEN code ELSE NoCode, serverUrl |-> url] :
        action \in {"create", "join"}, code \in InvitationCodes, url \in OverrideUrls}
MalformedBodies ==
    {[json |-> FALSE, null |-> FALSE, action |-> "none", code |-> NoCode, serverUrl |-> ""],
     [json |-> TRUE, null |-> TRUE, action |-> "none", code |-> NoCode, serverUrl |-> ""],
     [json |-> TRUE, null |-> FALSE, action |-> "none", code |-> NoCode, serverUrl |-> ""],
     [json |-> TRUE, null |-> FALSE, action |-> "delete", code |-> NoCode, serverUrl |-> ""],
     [json |-> TRUE, null |-> FALSE, action |-> "join", code |-> NoCode, serverUrl |-> ""],
     [json |-> TRUE, null |-> FALSE, action |-> "join", code |-> EmptyCode, serverUrl |-> ""]}

Rejected(error) == [dispatch |-> FALSE, respond |-> TRUE, error |-> error]
Dispatched == [dispatch |-> TRUE, respond |-> TRUE, error |-> ""]

\* A processRequest without the roomId check of the join case.
processRequestUnchecked(body) ==
    IF body.null THEN Rejected("TypeError")
    ELSE CASE body.action \in {"create", "join"} -> Dispatched
           [] OTHER -> Rejected("Unknown action")

\* processRequest: the switch on request.action; reading the action of null
\* throws and is caught by its own catch.
processRequest(body) ==
    IF body.null THEN Rejected("TypeError")
    ELSE CASE body.action = "create" -> Dispatched
           [] body.action = "join" ->
                IF Falsy(body.code) THEN Rejected("roomId is required for join action")
                ELSE Dispatched
           [] OTHER -> Rejected("Unknown action")

\* An 'end' handler without the try around JSON.parse: the exception escapes and
\* nothing is sent.
parseAndProcessUncaught(body) ==
    IF ~body.json THEN [dispatch |-> FALSE, respond |-> FALSE, error |-> ""]
    ELSE processRequest(body)

\* handleRequest 'end' handler, lines 129-140: JSON.parse, then processRequest.
parseAndProcess(body) ==
    IF ~body.json THEN Rejected("Invalid request")
    ELSE processRequest(body)

\* The 'end' handler for one POST body: a rejected command is answered at once,
\* a dispatched one goes to handleCreateRoom / handleJoinRoom.
Command(r, body) ==
    LET rq == [NoRequest EXCEPT !.method = "POST", !.url = "/",
                                !.action = body.action,
                                !.code = body.code,
                                !.serverUrl = body.serverUrl,
                                !.before = serverUrl]
        p == parseAndProcess(body)
    IN  IF ~p.dispatch
        THEN /\ req' = [req EXCEPT ![r] = IF p.respond
                                          THEN Respond(rq, FALSE, 0, "", p.error, 0)
                                          ELSE [rq EXCEPT !.pc = "dropped"]]
             /\ UNCHANGED <<att, nextAttempt, listeners>>
        ELSE IF build = "main" /\ rq.serverUrl # ""
        THEN /\ req' = [req EXCEPT ![r] = [rq EXCEPT !.pc = "override",
                                                     !.originalUrl = serverUrl]]
             /\ UNCHANGED <<att, nextAttempt, listeners>>
        ELSE Trigger(r, rq, serverUrl)

\* A POST with a well-formed create or join command.
Post(r) ==
    /\ NextRequest(r)
    /\ \E body \in WellFormedBodies : Command(r, body)
    /\ UNCHANGED <<env, notifier, autoStart, serverUrl, tokenSource, cancelled, userTokens,
                   roomData, Current, unhandled, timers>>

\* A POST with a malformed command: not JSON, null, no or an unknown action, or
\* a join without roomId.
PostMalformed(r) ==
    /\ NextRequest(r)
    /\ \E body \in MalformedBodies : Command(r, body)
    /\ UNCHANGED <<env, notifier, autoStart, serverUrl, tokenSource, cancelled, userTokens,
                   roomData, Current, unhandled, timers>>

\* automation-service.ts lines 168, 209: Settings.setServerUrl(serverUrl) resolved.
OverrideDone(r) ==
    /\ req[r].pc = "override"
    /\ serverUrl' = req[r].serverUrl
    /\ Trigger(r, req[r], req[r].serverUrl)
    /\ UNCHANGED <<env, notifier, autoStart, tokenSource, cancelled, userTokens, roomData,
                   Current, unhandled, timers>>

\* automation-service.ts lines 178, 194, 219, 235: Settings.setServerUrl(originalUrl)
\* resolved; the response is sent.
RestoreDone(r) ==
    /\ req[r].pc = "restore"
    /\ serverUrl' = req[r].originalUrl
    /\ req' = [req EXCEPT ![r].pc = "responded"]
    /\ UNCHANGED <<env, notifier, autoStart, tokenSource, cancelled, att, nextAttempt, userTokens,
                   roomData, Current, listeners, unhandled, timers>>

----------------------------------------------------------------------------
\* The automation endpoint: requests other than POST

contextRange == 5
Max(x, y) == IF x >= y THEN x ELSE y

\* The loop of lines 286-289: one entry per line from startLine to endLine.
ExcerptLines(startLine, endLine) ==
    [i \in 1..(endLine - startLine + 1) |-> startLine + i - 1]

\* An excerpt that is not clamped to the end of the document.
HostContextOfUnclamped(ed) ==
    LET startLine == Max(0, ed.cursorLine - contextRange)
        endLine == ed.cursorLine + contextRange
    IN  [startLine |-> startLine, endLine |-> endLine, totalLines |-> ed.totalLines,
         cursorLine |-> ed.cursorLine, lines |-> ExcerptLines(startLine, endLine)]

\* handleGetHostContext, part_001 lines 270-303: the context of an open editor.
HostContextOf(ed) ==
    LET startLine == Max(0, ed.cursorLine - contextRange)
        endLine == Min(ed.totalLines - 1, ed.cursorLine + contextRange)
    IN  [startLine |-> startLine, endLine |-> endLine, totalLines |-> ed.totalLines,
         cursorLine |-> ed.cursorLine, lines |-> ExcerptLines(startLine, endLine)]

\* instance.host of the session an attempt built: true for a create, false for a
\* resume (tryConnect) and for a join.
IsHost(a) == att[a].kind \in Creates

NoHostContext(error) == [success |-> FALSE, error |-> error, context |-> NoContext]

\* handleGetHostContext.
\*   part_001: needs an active editor; a path is always found.
\*   part_002: needs a live host session, an active editor and a document of
\*     the collaboration workspace.
handleGetHostContext ==
    IF build = "p2" /\ Current = 0
    THEN NoHostContext("No active collaboration session")
    ELSE IF build = "p2" /\ ~IsHost(Current)
    THEN NoHostContext("Current session is not a host session")
    ELSE IF ~editor.open
    THEN NoHostContext("No active editor")
    ELSE IF build = "p2" /\ ~editor.inWorkspace
    THEN NoHostContext("Active editor is not in the collaboration workspace")
    ELSE [success |-> TRUE, error |-> "", context |-> HostContextOf(editor)]

\* URLs a GET may name.
GetUrls == {"/host-context", "/host-context?pretty", "/"}
\* req.url?.startsWith('/host-context')
StartsWithHostContext(url) == url \in {"/host-context", "/host-context?pretty"}
\* The route to handleGetHostContext: automation-service.ts has none, part_001
\* matches the prefix, part_002 the exact URL.
HostContextRoute(url) ==
    CASE build = "p1" -> StartsWithHostContext(url)
      [] build = "p2" -> url = "/host-context"
      [] OTHER -> FALSE

\* sendResponse(res, 405, {success: false, error: 'Method not allowed...'}).
MethodNotAllowed(rq) ==
    [rq EXCEPT !.pc = "responded", !.status = 405, !.success = FALSE,
               !.error = "Method not allowed"]

\* sendContextResponse(res, 200, contextResponse).
sendContextResponse(rq, h) ==
    [rq EXCEPT !.pc = "responded", !.status = 200, !.success = h.success,
               !.error = h.error, !.context = h.context]

\* handleRequest with an OPTIONS request: writeHead(200), end().
Options(r) ==
    /\ NextRequest(r)
    /\ req' = [req EXCEPT ![r] = [NoRequest EXCEPT !.method = "OPTIONS", !.url = "/",
                                                   !.pc = "responded", !.status = 200,
                                                   !.bare = TRUE]]
    /\ UNCHANGED <<env, notifier, autoStart, serverUrl, tokenSource, cancelled, att,
                   nextAttempt, userTokens, roomData, Current, listeners, unhandled, timers>>

\* handleRequest with a GET request.
Get(r) ==
    /\ NextRequest(r)
    /\ \E url \in GetUrls :
         LET rq == [NoRequest EXCEPT !.method = "GET", !.url = url]
         IN  req' = [req EXCEPT ![r] = IF HostContextRoute(url)
                                       THEN sendContextResponse(rq, handleGetHostContext)
                                       ELSE MethodNotAllowed(rq)]
    /\ UNCHANGED <<env, notifier, autoStart, serverUrl, tokenSource, cancelled, att,
                   nextAttempt, userTokens, roomData, Current, listeners, unhandled, timers>>

\* handleRequest with a request that is neither OPTIONS, GET nor POST.
OtherMethod(r) ==
    /\ NextRequest(r)
    /\ \E method \in {"PUT", "DELETE"} :
         req' = [req EXCEPT ![r] =
                    MethodNotAllowed([NoRequest EXCEPT !.method = method, !.url = "/"])]
    /\ UNCHANGED <<env, notifier, autoStart, serverUrl, tokenSource, cancelled, att,
                   nextAttempt, userTokens, roomData, Current, listeners, unhandled, timers>>

----------------------------------------------------------------------------
\* The automation service and its HTTP server (AutomationService: init,
\* handleConfigChange, startServer, stopServer, dispose)

\* Number of HTTP servers one run may create.
MaxServers == 3
Servers == 1..MaxServers

\* Values of the oct.automation.port setting.
Ports == {8443, 9555}
\* getConfig('port', ...) when the setting is absent.
defaultPort == IF build = "main" THEN 8443 ELSE 9555
\* The host argument of server.listen.
listenHost == IF build = "main" THEN "127.0.0.1" ELSE "0.0.0.0"

\* config: the port setting; port: this.port; server: this.server as an index
\* into made, 0 when undefined; made: the servers created so far.
NoService == [config |-> 0, port |-> 0, server |-> 0, made |-> <<>>, disposed |-> FALSE]

\* startServer(): createServer, listen(this.port, host); this.server is the new one.
startServer(svc) ==
    [svc EXCEPT !.made = Append(@, [port |-> svc.port, host |-> listenHost,
                                    state |-> "starting"]),
                !.server = Len(svc.made) + 1]

\* stopServer(): server.close(...) and this.server = undefined.
stopServer(svc) ==
    IF svc.server = 0 THEN svc
    ELSE [svc EXCEPT !.made[svc.server].state =
                        IF @ \in {"starting", "listening"} THEN "closing" ELSE @,
                     !.server = 0]

\* init(): this.port = getConfig('port', default); startServer().
init(config) ==
    startServer([NoService EXCEPT !.config = config, !.port = config])

\* The service once its first server is listening.
Serving(config) ==
    [init(config) EXCEPT !.made[1].state = "listening"]

\* A handler that restarts the server on every change of a setting.
handleConfigChangeAlways(svc) ==
    startServer(stopServer([svc EXCEPT !.port = svc.config]))

\* handleConfigChange(): only a new port restarts the server.
handleConfigChange(svc) ==
    IF svc.config # svc.port
    THEN startServer(stopServer([svc EXCEPT !.port = svc.config]))
    ELSE svc

Others == <<autoStart, notifier, serverUrl, tokenSource, cancelled, att, nextAttempt,
            userTokens, roomData, Current, listeners, req, unhandled, timers>>

\* A setting of oct.automation changes: the port, or another one (the port
\* keeps its value); onDidChangeConfiguration calls handleConfigChange. The
\* listener and the service are both subscriptions of the extension context
\* (automation-service.ts line 42, part_000 line 1168), which are disposed in
\* one run: no change is delivered once the service is disposed.
ConfigChange ==
    /\ ~automation.disposed
    /\ \E newPort \in Ports :
         LET svc == handleConfigChange([automation EXCEPT !.config = newPort])
         IN  /\ Len(svc.made) <= MaxServers
             /\ automation' = svc
    /\ UNCHANGED <<build, web, editor, serverUrlOverride, procEnv, activation, Others>>

\* The 'listening' callback of server i.
ServerListening(i) ==
    /\ i \in 1..Len(automation.made)
    /\ automation.made[i].state = "starting"
    /\ automation' = [automation EXCEPT !.made[i].state = "listening"]
    /\ UNCHANGED <<build, web, editor, serverUrlOverride, procEnv, activation, Others>>

\* The 'error' handler of server i: the port is in use, or another error.
ServerError(i) ==
    /\ i \in 1..Len(automation.made)
    /\ automation.made[i].state = "starting"
    /\ automation' = [automation EXCEPT !.made[i].state = "failed"]
    /\ UNCHANGED <<build, web, editor, serverUrlOverride, procEnv, activation, Others>>

\* The callback of server.close of server i.
ServerClosed(i) ==
    /\ i \in 1..Len(automation.made)
    /\ automation.made[i].state = "closing"
    /\ automation' = [automation EXCEPT !.made[i].state = "closed"]
    /\ UNCHANGED <<build, web, editor, serverUrlOverride, procEnv, activation, Others>>

\* dispose(): stopServer().
Dispose ==
    /\ ~automation.disposed
    /\ automation' = [stopServer(automation) EXCEPT !.disposed = TRUE]
    /\ UNCHANGED <<build, web, editor, serverUrlOverride, procEnv, activation, Others>>

----------------------------------------------------------------------------
\* activate()

\* A policy that looks at the instance id and the identity first.
activateAutoStartCreateFirst(e) ==
    IF e.instanceId /\ e.username THEN "create"
    ELSE IF e.autoJoinRoom # "" /\ Trim(e.autoJoinRoom) # "" THEN "join"
    ELSE "none"

\* Lines 1180-1233: which timer activate() schedules.
activateAutoStart(e) ==
    IF e.autoJoinRoom # "" /\ Trim(e.autoJoinRoom) # "" THEN "join"
    ELSE IF e.instanceId /\ e.username THEN "create"
    ELSE "none"

\* Line 1170: activate() calls tryConnect() and awaits it.
Activate ==
    /\ activation.pc = "new"
    /\ activation' = [pc |-> "tryConnect", att |-> nextAttempt]
    /\ Call(tryConnect, req, listeners)
    /\ UNCHANGED <<build, web, editor, serverUrlOverride, procEnv, automation, notifier, autoStart,
                   serverUrl, tokenSource, cancelled, userTokens, roomData, Current,
                   unhandled, timers>>

\* The call of tryConnect that activate() awaits has settled with outcome.
ActivateAwaits(outcome) ==
    /\ activation.pc = "tryConnect"
    /\ att[activation.att].pc = "done"
    /\ att[activation.att].outcome = outcome

\* An activate() that consults the environment after a resume as well.
ReadyDoneSchedules ==
    /\ ActivateAwaits("returned")
    /\ activation' = [activation EXCEPT !.pc = "resumed"]
    /\ autoStart' = activateAutoStart(procEnv)
    /\ UNCHANGED <<build, web, editor, serverUrlOverride, procEnv, automation, notifier, serverUrl,
                   tokenSource, cancelled, att, nextAttempt, userTokens, roomData,
                   Current, listeners, req, unhandled, timers>>

\* Lines 1171-1175: tryConnect returned a connection and connection.ready has
\* resolved; activate() returns.
ReadyDone ==
    /\ ActivateAwaits("returned")
    /\ activation' = [activation EXCEPT !.pc = "resumed"]
    /\ UNCHANGED <<build, web, editor, serverUrlOverride, procEnv, automation, Others>>

\* Lines 1176-1233: tryConnect returned undefined and closeSharedEditors() has
\* resolved; the environment decides which timer is scheduled.
CloseEditorsDone ==
    /\ ActivateAwaits("undefined")
    /\ activation' = [activation EXCEPT !.pc = "done"]
    /\ autoStart' = activateAutoStart(procEnv)
    /\ UNCHANGED <<build, web, editor, serverUrlOverride, procEnv, automation, notifier, serverUrl,
                   tokenSource, cancelled, att, nextAttempt, userTokens, roomData,
                   Current, listeners, req, unhandled, timers>>

----------------------------------------------------------------------------
\* Specifications

\* The state after construction; the environment is fixed per run.
Fresh ==
    /\ tokenSource = 1
    /\ cancelled = {}
    /\ att = [a \in Attempts |-> NoAttempt]
    /\ nextAttempt = 1
    /\ userTokens = [u \in Urls |-> 0]
    /\ roomData = NoRoomData
    /\ Current = 0
    /\ listeners = {}
    /\ req = [r \in Requests |-> NoRequest]
    /\ unhandled = {}
    /\ timers = 0
    /\ notifier = NoNotifier

\* The orchestrator driven by the commands of the user interface and by the
\* timers of activate().
Init ==
    /\ build = "main"
    /\ web \in BOOLEAN
    /\ serverUrlOverride = TRUE
    /\ editor = NoEditor
    /\ procEnv \in {PlainEnv, TeacherEnv, StudentEnv}
    /\ activation = Activated
    /\ automation = Serving(defaultPort)
    /\ autoStart = activateAutoStart(procEnv)
    /\ serverUrl \in ConfiguredUrls
    /\ Fresh

Next ==
    \/ UiCreateRoom
    \/ UiJoinRoom
    \/ AutoJoin
    \/ AutoCreate
    \/ TimerFires
    \/ \E a \in Attempts :
        \/ InputBox(a)
        \/ RetrieveDone(a)
        \/ Callback(a)
        \/ ProviderDone(a)
        \/ ExchangeOk(a)
        \/ StoreTokenDone(a)
        \/ ConnectOk(a)
        \/ ClipboardDone(a)
        \/ StoreRoomDataDone(a)
        \/ StoreWorkspaceDone(a)
        \/ OpenFolderDone(a)
        \/ ConsumeDone(a)
        \/ Throw(a)
        \/ UserCancel(a)

Spec == Init /\ [][Next]_vars

\* The automation endpoint: POST commands, with the "create room" command of the
\* user interface beside them.
InitAutomation ==
    /\ build \in Builds
    /\ web \in BOOLEAN
    /\ serverUrlOverride = TRUE
    /\ editor = NoEditor
    /\ procEnv = PlainEnv
    /\ activation = Activated
    /\ automation = Serving(defaultPort)
    /\ autoStart = "none"
    /\ serverUrl = "s1"
    /\ Fresh

NextAutomation ==
    \/ UiCreateRoom
    \/ TimerFires
    \/ \E r \in Requests : Post(r) \/ OverrideDone(r) \/ RestoreDone(r)
    \/ \E a \in Attempts :
        \/ RetrieveDone(a)
        \/ Callback(a)
        \/ ProviderDone(a)
        \/ ExchangeOk(a)
        \/ StoreTokenDone(a)
        \/ ConnectOk(a)
        \/ ClipboardDone(a)
        \/ StoreRoomDataDone(a)
        \/ StoreWorkspaceDone(a)
        \/ OpenFolderDone(a)
        \/ ConsumeDone(a)
        \/ Throw(a)
        \/ UserCancel(a)

SpecAutomation == InitAutomation /\ [][NextAutomation]_vars

\* The startup auto-create with the registration notifier it starts.
InitNotifier ==
    /\ build = "main"
    /\ web = FALSE
    /\ serverUrlOverride = TRUE
    /\ editor = NoEditor
    /\ procEnv = StudentEnv
    /\ activation = Activated
    /\ automation = Serving(defaultPort)
    /\ autoStart = "create"
    /\ serverUrl \in ConfiguredUrls
    /\ Fresh

NextNotifier ==
    \/ AutoCreate
    \/ FetchDone
    \/ TextDone
    \/ WaitDone
    \/ \E a \in Attempts :
        \/ RetrieveDone(a)
        \/ ProviderDone(a)
        \/ ExchangeOk(a)
        \/ StoreTokenDone(a)
        \/ ConnectOk(a)
        \/ Throw(a)

SpecNotifier == InitNotifier /\ [][NextNotifier]_vars

\* The automation endpoint with every kind of request it dispatches on.
InitDispatch ==
    /\ build \in Builds
    /\ web = FALSE
    /\ serverUrlOverride = TRUE
    /\ editor = NoEditor
    /\ procEnv = PlainEnv
    /\ activation = Activated
    /\ automation = Serving(defaultPort)
    /\ autoStart = "none"
    /\ serverUrl = "s1"
    /\ Fresh

NextDispatch ==
    \/ \E r \in Requests :
        \/ Post(r)
        \/ PostMalformed(r)
        \/ Options(r)
        \/ Get(r)
        \/ OtherMethod(r)
        \/ OverrideDone(r)
        \/ RestoreDone(r)
    \/ \E a \in Attempts :
        \/ RetrieveDone(a)
        \/ Callback(a)
        \/ ProviderDone(a)
        \/ ExchangeOk(a)
        \/ StoreTokenDone(a)
        \/ ConnectOk(a)
        \/ ClipboardDone(a)
        \/ StoreRoomDataDone(a)
        \/ StoreWorkspaceDone(a)
        \/ OpenFolderDone(a)
        \/ Throw(a)
        \/ UserCancel(a)

SpecDispatch == InitDispatch /\ [][NextDispatch]_vars

\* ---------------------------------------------------------------------------
\* The host context query on its own: an editor with a document of up to
\* MaxLines lines and a cursor on one of them, the session of the auto-create
\* start (part_002 answers the query for a host session only), and GET requests.
MaxLines == 13

\* vscode.window.activeTextEditor: none, or a document of lineCount >= 1 lines
\* with selection.active.line on one of them.
Editors ==
    {NoEditor} \cup
    {ed \in [open : {TRUE}, inWorkspace : BOOLEAN, totalLines : 1..MaxLines,
             cursorLine : 0..(MaxLines - 1)] : ed.cursorLine < ed.totalLines}

InitHostContext ==
    /\ build \in Builds
    /\ web = FALSE
    /\ serverUrlOverride = TRUE
    /\ editor \in Editors
    /\ procEnv = StudentEnv
    /\ activation = Activated
    /\ automation = Serving(defaultPort)
    /\ autoStart = "create"
    /\ serverUrl = "s1"
    /\ Fresh

NextHostContext ==
    \/ AutoCreate
    \/ \E r \in Requests : Get(r)
    \/ \E a \in Attempts :
        \/ RetrieveDone(a)
        \/ ProviderDone(a)
        \/ ExchangeOk(a)
        \/ StoreTokenDone(a)
        \/ ConnectOk(a)
        \/ Throw(a)

SpecHostContext == InitHostContext /\ [][NextHostContext]_vars

\* The process start: the secret storage may hold the room data of a join of
\* the previous process; activate() resumes or lets the environment decide.
PendingRoomData == [serverUrl |-> "s1", roomToken |-> 29, roomId |-> 9, host |-> HostOf(9)]

InitStartup ==
    /\ build = "main"
    /\ web = FALSE
    /\ serverUrlOverride = TRUE
    /\ editor = NoEditor
    /\ procEnv \in ProcEnvs
    /\ activation = NotActivated
    /\ automation = Serving(defaultPort)
    /\ autoStart = "none"
    /\ serverUrl \in ConfiguredUrls
    /\ tokenSource = 1
    /\ cancelled = {}
    /\ att = [a \in Attempts |-> NoAttempt]
    /\ nextAttempt = 1
    /\ userTokens = [u \in Urls |-> 0]
    /\ roomData \in {NoRoomData, PendingRoomData}
    /\ Current = 0
    /\ listeners = {}
    /\ req = [r \in Requests |-> NoRequest]
    /\ unhandled = {}
    /\ timers = 0
    /\ notifier = NoNotifier

NextStartup ==
    \/ Activate
    \/ ReadyDone
    \/ CloseEditorsDone
    \/ AutoJoin
    \/ AutoCreate
    \/ \E a \in Attempts :
        \/ ConsumeDone(a)
        \/ RetrieveDone(a)
        \/ ProviderDone(a)
        \/ ExchangeOk(a)
        \/ StoreTokenDone(a)
        \/ ConnectOk(a)
        \/ StoreRoomDataDone(a)
        \/ StoreWorkspaceDone(a)
        \/ OpenFolderDone(a)
        \/ Throw(a)

SpecStartup == InitStartup /\ [][NextStartup]_vars

\* The silent operations, called by the timers of activate() and, in part_001,
\* by the endpoint's create command; the server URL setting may carry a
\* trailing slash.
SilentUrls == {"", "s1", "s1/"}

InitSilent ==
    /\ build = "p1"
    /\ web = FALSE
    /\ serverUrlOverride = TRUE
    /\ editor = NoEditor
    /\ procEnv \in {TeacherEnv, StudentEnv}
    /\ activation = Activated
    /\ automation = Serving(defaultPort)
    /\ autoStart = activateAutoStart(procEnv)
    /\ serverUrl \in SilentUrls
    /\ Fresh

NextSilent ==
    \/ AutoJoin
    \/ AutoCreate
    \/ \E r \in Requests : Post(r)
    \/ \E a \in Attempts :
        \/ RetrieveDone(a)
        \/ ProviderDone(a)
        \/ ExchangeOk(a)
        \/ StoreTokenDone(a)
        \/ ConnectOk(a)
        \/ StoreRoomDataDone(a)
        \/ StoreWorkspaceDone(a)
        \/ OpenFolderDone(a)
        \/ Throw(a)

SpecSilent == InitSilent /\ [][NextSilent]_vars

\* The delayed reconnect of the web extension: one or two joins have stored
\* their room data and scheduled tryConnect; the attempts of the run are the
\* calls of tryConnect.
InitResume ==
    /\ build = "main"
    /\ web = TRUE
    /\ serverUrlOverride = TRUE
    /\ editor = NoEditor
    /\ procEnv = PlainEnv
    /\ activation = Activated
    /\ automation = Serving(defaultPort)
    /\ autoStart = "none"
    /\ serverUrl \in ConfiguredUrls
    /\ timers \in 1..MaxAttempts
    /\ tokenSource = 1 + timers
    /\ cancelled = 1..timers
    /\ att = [a \in Attempts |-> NoAttempt]
    /\ nextAttempt = 1
    /\ userTokens \in {[u \in Urls |-> 0], [u \in Urls |-> IF u = "s1" THEN 49 ELSE 0]}
    /\ roomData = PendingRoomData
    /\ Current = 0
    /\ listeners = {}
    /\ req = [r \in Requests |-> NoRequest]
    /\ unhandled = {}
    /\ notifier = NoNotifier

NextResume ==
    \/ TimerFires
    \/ \E a \in Attempts :
        \/ ConsumeDone(a)
        \/ ProviderDone(a)
        \/ ConnectOk(a)
        \/ Throw(a)

SpecResume == InitResume /\ [][NextResume]_vars

\* The automation service from its construction on.
InitServer ==
    /\ build \in Builds
    /\ web = FALSE
    /\ serverUrlOverride = TRUE
    /\ editor = NoEditor
    /\ procEnv = PlainEnv
    /\ activation = NotActivated
    /\ \E config \in Ports : automation = init(config)
    /\ autoStart = "none"
    /\ serverUrl = "s1"
    /\ Fresh

NextServer ==
    \/ ConfigChange
    \/ Dispose
    \/ \E i \in Servers :
        \/ ServerListening(i)
        \/ ServerError(i)
        \/ ServerClosed(i)

SpecServer == InitServer /\ [][NextServer]_vars

----------------------------------------------------------------------------
\* Properties of the orchestrator (checked under Spec)

Errors == {"error:create", "error:join"}
NoErrorShown(rec) == \A i \in 1..Len(rec.shown) : rec.shown[i] \notin Errors
FailureOutcomes == {"failed", "cancelled", "ignored", "undefined", "false", "rejected"}
HoldsLiveToken(a) == att[a].outer # 0 /\ att[a].outer \notin cancelled
ExchangeIssued(a) == att[a].kind \in Creates \cup Joins /\ att[a].pc \in ProgressPcs

\* C1 (supersession): once createRoom attempt B, started while the earlier
\* createRoom attempt A is unresolved, has taken its outer token, A fires no
\* "joined" event and shows no error message.
C1_Supersession ==
    [][\A a \in Attempts :
         (/\ att[a].kind = "createRoom"
          /\ ~Resolved(a)
          /\ \E b \in Attempts : b > a /\ att[b].kind = "createRoom" /\ att[b].outer # 0)
         => /\ att'[a].fired = att[a].fired
            /\ NoErrorShown(att'[a])]_vars

\* C2 (single authoritative attempt): when a later create or join attempt,
\* silent ones included, has issued its exchange, no earlier unresolved attempt
\* holds an un-cancelled outer token; and at most one unresolved attempt holds
\* an un-cancelled outer token.
C2_SingleAuthoritative ==
    /\ \A a, b \in Attempts :
         (a < b /\ a \in Unresolved /\ ExchangeIssued(b)) => ~HoldsLiveToken(a)
    /\ Cardinality({a \in Unresolved : HoldsLiveToken(a)}) <= 1

\* C3 (cancellation follows arrival order): of two interactive attempts that both
\* reached their callback, the token of the one that arrived first is cancelled,
\* and the token of the one that arrived later is cancelled only by an attempt
\* that arrived after it.
C3_ArrivalOrder ==
    \A a, b \in Attempts :
        (/\ a < b
         /\ att[a].kind \in Interactive /\ att[b].kind \in Interactive
         /\ att[a].outer # 0 /\ att[b].outer # 0)
        => /\ att[a].outer \in cancelled
           /\ att[b].outer \in cancelled
                => \E c \in Attempts : c > b /\ att[c].outer # 0

\* What the failure of the exchange of interactive attempt a must show.
ExpectedShown(a) ==
    IF att[a].outer \in cancelled THEN <<>>
    ELSE IF att[a].inner THEN <<"info:cancelled">>
    ELSE IF att[a].kind = "createRoom" THEN <<"error:create">>
    ELSE <<"error:join">>

\* C4 (error outcome): when the exchange of an interactive create or join throws,
\* nothing is shown if the attempt's outer token is cancelled; otherwise exactly
\* one "cancelled" notice if the caller's token is cancelled; otherwise exactly
\* one error message, create-failed for a create and join-failed for a join.
C4_ErrorOutcome ==
    [][\A a \in Attempts :
         (att[a].kind \in Interactive /\ att[a].pc = "exchange" /\ att'[a].pc = "done")
         => att'[a].shown = att[a].shown \o ExpectedShown(a)]_vars

\* Two exchanges have thrown: one with both tokens cancelled, which showed
\* nothing, and one with only the caller's token cancelled, which showed the notice.
C4_Witness ==
    \E a, b \in Attempts :
        /\ att[a].failedAt = "exchange" /\ att[a].kind \in Interactive
        /\ att[a].outer \in cancelled /\ att[a].inner /\ att[a].shown = <<>>
        /\ att[b].failedAt = "exchange" /\ att[b].kind \in Interactive
        /\ att[b].outer \notin cancelled /\ att[b].shown = <<"info:cancelled">>

\* C5 (abort signal): the abort signal of an interactive attempt is aborted
\* exactly when its outer token or its caller's token is cancelled.
C5_AbortIff ==
    \A a \in Attempts :
        (att[a].kind \in Interactive /\ att[a].outer # 0)
        => (att[a].aborted <=> (att[a].outer \in cancelled \/ att[a].inner))

\* An exchange is pending under a signal aborted by the caller's token alone,
\* beside one aborted by the outer token alone.
C5_Witness ==
    \E a, b \in Attempts :
        /\ att[a].pc = "exchange" /\ att[a].aborted
        /\ att[a].inner /\ att[a].outer \notin cancelled
        /\ att[b].kind \in Interactive /\ att[b].aborted
        /\ ~att[b].inner /\ att[b].outer \in cancelled

----------------------------------------------------------------------------
\* Properties of the automation endpoint (checked under SpecAutomation)

SuccessOutcomes == {"joined", "returned", "true"}
InFlight(r) == req[r].pc \in {"override", "waiting"}
Answered(r) == req[r].pc \in {"restore", "responded"}
\* The attempt of request r, once its operation has been triggered.
Own(r) == att[req[r].att]
\* A resume that may still publish a session.
ResumePending ==
    timers > 0 \/ \E a \in Unresolved : att[a].kind = "tryConnect"

\* C7 (automation isolation): of two create requests in flight at the same
\* time, each one that is answered with success carries the room id issued to
\* its own create operation.
C7_Isolation ==
    [][\A r, q \in Requests :
         (/\ r # q
          /\ req[r].action = "create" /\ req[q].action = "create"
          /\ req[r].pc = "waiting" /\ req[q].pc = "waiting"
          /\ Answered(r)' /\ req'[r].success)
         => req'[r].bodyRoomId = IssuedRoom(req[r].att)]_vars

\* C8 (failure response): a create or join request whose provider creation or
\* exchange has failed is answered with status 400 and success false.
C8_FailureResponse ==
    \A r \in Requests :
        (/\ req[r].att # 0
         /\ Own(r).pc = "done"
         /\ Own(r).failedAt \in {"provider", "exchange"})
        => /\ Answered(r)
           /\ req[r].status = 400
           /\ ~req[r].success

\* C9 (success response): a create or join request whose operation has completed
\* successfully, with no resume left to run, is answered with status 200 and the
\* room id of its own operation.
C9_SuccessResponse ==
    \A r \in Requests :
        (/\ req[r].att # 0
         /\ Own(r).pc = "done"
         /\ Own(r).outcome \in SuccessOutcomes
         /\ ~ResumePending)
        => /\ Answered(r)
           /\ req[r].status = 200
           /\ req[r].bodyRoomId = Own(r).roomId

\* C10 (listener scoping): a request answered with success was resolved by the
\* "joined" event of its own operation, or of the resume of its own join; and an
\* answered request is no longer subscribed.
C10_ListenerScoped ==
    \A r \in Requests :
        Answered(r)
        => /\ r \notin listeners
           /\ req[r].success
                => \/ req[r].by = req[r].att
                   \/ /\ att[req[r].by].kind = "tryConnect"
                      /\ att[req[r].by].roomToken = Own(r).roomToken

----------------------------------------------------------------------------
\* Properties of the registration notifier (checked under SpecNotifier)

\* 2^n by repeated doubling.
RECURSIVE Doubled(_)
Doubled(n) == IF n = 0 THEN 1 ELSE 2 * Doubled(n - 1)

\* C11 (backoff bounds): the wait before attempt k, for k in 2..20, is
\* min(1000 * 2^(k-2), 30000) ms; the waits never decrease and never exceed
\* 30000 ms.
C11_BackoffBounds ==
    /\ Len(notifier.delays) <= 19
    /\ \A k \in 2..20 :
         k - 1 <= Len(notifier.delays)
         => /\ notifier.delays[k - 1] = Min(1000 * Doubled(k - 2), 30000)
            /\ notifier.delays[k - 1] <= 30000
            /\ k > 2 => notifier.delays[k - 2] <= notifier.delays[k - 1]

\* All nineteen waits have been taken: the first is 1000 ms, the sixth is the
\* first at the cap, and so is the last.
C11_Witness ==
    /\ Len(notifier.delays) = 19
    /\ notifier.delays[1] = 1000
    /\ notifier.delays[5] = 16000
    /\ notifier.delays[6] = 30000
    /\ notifier.delays[19] = 30000

FailedKinds == {"non2xx", "timeout", "network"}

\* C12 (exhaustion): no run makes more than 20 requests or takes more than 19
\* waits; when the 20th attempt has failed the run is over, having made exactly
\* 20 requests and waited after each of the first 19 only, and it ends by
\* returning (the terminal failure is logged, nothing is thrown).
C12_Exhaustion ==
    /\ notifier.requests <= 20
    /\ Len(notifier.delays) <= 19
    /\ (notifier.attempt = 20 /\ notifier.pc \notin {"fetch", "text"})
       => /\ notifier.pc = "done"
          /\ notifier.last \in FailedKinds => notifier.outcome = "exhausted"
    /\ notifier.outcome = "exhausted"
       => /\ notifier.pc = "done"
          /\ notifier.requests = 20
          /\ Len(notifier.delays) = 19

\* All 20 attempts have failed, the last one by a timeout.
C12_Witness ==
    /\ notifier.outcome = "exhausted"
    /\ notifier.requests = 20
    /\ notifier.last = "timeout"

\* C13 (delivery): when the registry answers 2xx on attempt k, 1 <= k <= 20, the
\* run is over with exactly k requests made and k-1 waits taken.
C13_Delivery ==
    notifier.outcome = "registered"
    => /\ notifier.pc = "done"
       /\ notifier.attempt \in 1..20
       /\ notifier.requests = notifier.attempt
       /\ Len(notifier.delays) = notifier.attempt - 1

\* The registry accepted on the last attempt of the budget, after 19 failures.
C13_Witness ==
    /\ notifier.outcome = "registered"
    /\ notifier.requests = 20
    /\ Len(notifier.delays) = 19

\* C14 (notifier start): the notifier has been started exactly once for every
\* silent create that succeeded, whether called by the auto-create timer or by
\* the automation endpoint, and for no silent create that failed.
C14_StartedPerCreate ==
    \A a \in Attempts :
        (att[a].kind = "createRoomSilent" /\ Resolved(a))
        => IF att[a].outcome = "returned"
           THEN notifier.of = a /\ notifier.starts = 1
           ELSE notifier.of # a

----------------------------------------------------------------------------
\* Properties of the endpoint's dispatch (checked under SpecDispatch)

\* The attempts started for request r.
AttemptsOf(r) == {a \in Attempts : att[a].req = r}

\* C16 (join without roomId): a POST with action "join" and no or an empty roomId
\* is answered 400 with {success:false, error:"roomId is required for join
\* action"}; no orchestrator operation is invoked and no listener subscribed.
C16_JoinWithoutRoomId ==
    \A r \in Requests :
        (req[r].method = "POST" /\ req[r].action = "join" /\ Falsy(req[r].code))
        => /\ req[r].pc = "responded"
           /\ req[r].status = 400
           /\ ~req[r].success
           /\ req[r].error = "roomId is required for join action"
           /\ req[r].att = 0
           /\ AttemptsOf(r) = {}
           /\ r \notin listeners

\* A join with an empty roomId has been answered while the operation of an
\* earlier request is in flight.
C16_Witness ==
    \E r, q \in Requests :
        /\ req[r].method = "POST" /\ req[r].action = "join" /\ req[r].code = EmptyCode
        /\ req[r].status = 400
        /\ q < r /\ req[q].pc = "waiting" /\ q \in listeners

\* C17 (malformed command): a POST whose body is not JSON or whose action is
\* neither "create" nor "join" is answered 400 with {success:false, error} and
\* invokes no orchestrator operation; the handler ends with the response, so the
\* next request is served.
C17_MalformedRejected ==
    \A r \in Requests :
        (req[r].method = "POST" /\ req[r].action \notin {"create", "join"})
        => /\ req[r].pc = "responded"
           /\ req[r].status = 400
           /\ ~req[r].success
           /\ req[r].error # ""
           /\ req[r].att = 0
           /\ AttemptsOf(r) = {}
           /\ r \notin listeners

\* A body that is not JSON was rejected, and the request after it was served
\* with a room.
C17_Witness ==
    \E r, q \in Requests :
        /\ req[r].method = "POST" /\ req[r].error = "Invalid request"
        /\ req[r].status = 400
        /\ r < q /\ req[q].method = "POST" /\ req[q].status = 200 /\ req[q].success

C19_StatusMatchesBody ==
    \A r \in Requests :
        (req[r].method = "POST" /\ req[r].pc = "responded")
        => /\ req[r].status = 200 <=> req[r].success
           /\ req[r].status = 400 <=> ~req[r].success
           /\ req[r].success => (req[r].bodyRoomId # 0 /\ req[r].bodyServerUrl # "")
           /\ ~req[r].success => req[r].error # ""

\* One command has been answered 200 with its room, another 400 with an error.
C19_Witness ==
    \E r, q \in Requests :
        /\ req[r].method = "POST" /\ req[r].pc = "responded"
        /\ req[r].status = 200 /\ req[r].bodyRoomId # 0
        /\ req[q].method = "POST" /\ req[q].pc = "responded"
        /\ req[q].status = 400 /\ req[q].att # 0

\* C20 (host context excerpt bounds): a host context query that succeeds for a
\* cursor on line c of a document of totalLines lines reports
\* startLine = max(0, c - 5) and endLine = min(totalLines - 1, c + 5); the
\* excerpt lies inside the document, contains the cursor line, and has
\* endLine - startLine + 1 lines, at most 11. A 3-line document with the
\* cursor on line 1 yields startLine 0, endLine 2 and 3 lines.
C20_ExcerptBounds ==
    \A r \in Requests :
        (req[r].method = "GET" /\ req[r].pc = "responded" /\ req[r].status = 200
         /\ req[r].success)
        => LET ctx == req[r].context
               c == editor.cursorLine
               n == editor.totalLines
           IN  /\ ctx.cursorLine = c /\ ctx.totalLines = n
               /\ ctx.startLine = (IF c - 5 > 0 THEN c - 5 ELSE 0)
               /\ ctx.endLine = (IF c + 5 < n - 1 THEN c + 5 ELSE n - 1)
               /\ 0 <= ctx.startLine /\ ctx.startLine <= c
               /\ c <= ctx.endLine /\ ctx.endLine <= n - 1
               /\ Len(ctx.lines) = ctx.endLine - ctx.startLine + 1
               /\ Len(ctx.lines) <= 11
               /\ \A i \in 1..Len(ctx.lines) : ctx.lines[i] = ctx.startLine + i - 1
               /\ (n = 3 /\ c = 1)
                    => (ctx.startLine = 0 /\ ctx.endLine = 2 /\ Len(ctx.lines) = 3)

\* A query has answered with the whole of a 3-line document, cursor on line 1.
C20_Witness ==
    \E r \in Requests :
        /\ req[r].method = "GET" /\ req[r].pc = "responded" /\ req[r].success
        /\ editor.totalLines = 3 /\ editor.cursorLine = 1
        /\ req[r].context.startLine = 0 /\ req[r].context.endLine = 2
        /\ Len(req[r].context.lines) = 3

\* C21 (host context answer): a GET on /host-context is always answered with
\* status 200; the body says success:false with an error when no editor has the
\* focus or no session is live, and success:true with the context otherwise.
C21_HostContextAnswer ==
    [][\A r \in Requests :
         (req[r].pc = "new" /\ req'[r].method = "GET" /\ req'[r].url = "/host-context")
         => /\ req'[r].pc = "responded"
            /\ req'[r].status = 200
            /\ req'[r].success <=> (editor.open /\ Current # 0)
            /\ req'[r].success => req'[r].context # NoContext
            /\ ~req'[r].success => req'[r].error # ""]_vars

----------------------------------------------------------------------------
\* Properties of the silent operations (checked under SpecSilent)

\* C22 (silent create): createRoomSilent never rejects and shows nothing; when
\* it returns a room, the room id is the one its exchange issued, the server URL
\* is the normalized configured one, and "joined" was fired once; on a failure
\* (no server URL, provider creation, exchange, credential store, connect) it
\* returns undefined and fires no "joined" event.
C22_SilentCreate ==
    \A a \in Attempts :
        att[a].kind = "createRoomSilent"
        => /\ att[a].shown = <<>>
           /\ a \notin unhandled
           /\ Resolved(a) => att[a].outcome \in {"returned", "undefined"}
           /\ serverUrl = "" => (Resolved(a) /\ att[a].outcome = "undefined"
                                 /\ att[a].roomToken = 0)
           /\ att[a].outcome = "returned"
                => /\ att[a].failedAt = "none"
                   /\ att[a].roomId = IssuedRoom(a)
                   /\ att[a].url = normalizeServerUri(serverUrl)
                   /\ att[a].session.host /\ att[a].session.roomId = IssuedRoom(a)
                   /\ att[a].fired = 1
           /\ att[a].failedAt # "none"
                => (Resolved(a) /\ att[a].outcome = "undefined")
           /\ att[a].outcome # "returned" => att[a].fired = 0
           /\ (att[a].req # 0 /\ Resolved(a))
                => /\ req[att[a].req].pc = "responded"
                   /\ req[att[a].req].success <=> att[a].outcome = "returned"
                   /\ req[att[a].req].success
                        => /\ req[att[a].req].bodyRoomId = IssuedRoom(a)
                           /\ req[att[a].req].bodyServerUrl = normalizeServerUri(serverUrl)

\* With the setting "s1/", one silent create has returned its room on "s1" and
\* another has failed storing the credential.
C22_Witness ==
    \E a, b \in Attempts :
        /\ serverUrl = "s1/"
        /\ att[a].kind = "createRoomSilent" /\ att[a].outcome = "returned"
        /\ att[a].url = "s1" /\ att[a].roomId = IssuedRoom(a)
        /\ att[b].kind = "createRoomSilent" /\ att[b].outcome = "undefined"
        /\ att[b].failedAt = "storeToken"

\* The room data a join attempt stores.
RoomDataOf(a) ==
    [serverUrl |-> att[a].url, roomToken |-> att[a].roomToken,
     roomId |-> att[a].roomId, host |-> HostOf(att[a].roomId)]

\* C23 (silent join): joinRoomSilent never rejects and shows nothing; it returns
\* true only when its exchange has succeeded, its room data are stored and the
\* workspace has been remapped; it returns false on every failure, and without
\* a configured server URL it returns false without making an exchange.
C23_SilentJoin ==
    \A a \in Attempts :
        att[a].kind = "joinRoomSilent"
        => /\ att[a].shown = <<>>
           /\ a \notin unhandled
           /\ Resolved(a) => att[a].outcome \in {"true", "false"}
           /\ serverUrl = "" => (Resolved(a) /\ att[a].outcome = "false"
                                 /\ att[a].roomToken = 0)
           /\ att[a].failedAt # "none" => (Resolved(a) /\ att[a].outcome = "false")
           /\ att[a].outcome = "true"
                => /\ att[a].failedAt = "none"
                   /\ att[a].roomToken = IssuedToken(a)
                   /\ roomData = RoomDataOf(a)
                   /\ att[a].remapped

----------------------------------------------------------------------------
\* Further properties of the orchestrator (checked under Spec and SpecStartup)

FourOperations == Interactive \cup Silent
\* Attempt a leaves position pc in this step without failing.
Passes(a, pc) ==
    att[a].pc = pc /\ att'[a].pc # pc /\ att'[a].failedAt = "none"

\* C24 (credential stored first): in createRoom, createRoomSilent, joinRoom and
\* joinRoomSilent, an exchange that returns a login token is followed by the
\* store of exactly that token under the attempt's server URL, and only then by
\* the connect (create) or the next step of the join; an exchange that returns
\* no login token goes on without touching the credential store; and nothing
\* but such a store changes the credential store.
C24_CredentialStored ==
    [][/\ \A a \in Attempts :
            att[a].kind \in FourOperations
            => /\ Passes(a, "exchange")
                    => /\ userTokens' = userTokens
                       /\ att'[a].login # 0 => att'[a].pc = "storeToken"
                       /\ att'[a].login = 0 => att'[a].pc \in {"connect", "storeRoomData"}
               /\ Passes(a, "storeToken")
                    => /\ att[a].login # 0
                       /\ userTokens' = [userTokens EXCEPT ![att[a].url] = att[a].login]
                       /\ att'[a].pc \in {"connect", "storeRoomData"}
               /\ (att'[a].pc \in {"connect", "storeRoomData"} /\ att[a].pc # att'[a].pc)
                    => \/ att[a].pc = "storeToken"
                       \/ att[a].pc = "exchange" /\ att'[a].login = 0
       /\ userTokens' # userTokens
            => \E a \in Attempts : Passes(a, "storeToken") /\ att[a].login # 0]_vars

\* An interactive join on "s2" and a silent create on "s1" have both stored
\* the login token of their exchange and gone on.
C24_Witness ==
    \E a, b \in Attempts :
        /\ att[a].kind = "joinRoom" /\ att[a].url = "s2" /\ att[a].login # 0
        /\ att[a].pc \in {"storeRoomData", "workspace", "open"}
        /\ userTokens["s2"] = att[a].login
        /\ att[b].kind = "createRoomSilent" /\ att[b].url = "s1" /\ att[b].login # 0
        /\ att[b].pc = "connect"
        /\ userTokens["s1"] = att[b].login

\* The call of tryConnect of attempt a has got the stored room data.
Resumes(rec) == rec.kind = "tryConnect" /\ rec.roomToken # 0

\* C25 (resume consumes once): when consumeRoomData resolves for a call of
\* tryConnect the store is left empty; with room data the call goes on to
\* connect with the stored server and token, and when it returns it has fired
\* exactly one "joined" event with a guest session of the stored room; without
\* room data it returns undefined and fires nothing; of two calls with no join
\* in between at most one gets the room data and returns a session.
C25_ConsumeOnce ==
    [][\A a \in Attempts :
         att'[a].kind = "tryConnect"
         => /\ (att[a].pc = "consume" /\ att'[a].pc # "consume" /\ att'[a].failedAt = "none")
                 => /\ roomData' = NoRoomData
                    /\ IF roomData = NoRoomData
                       THEN /\ att'[a].pc = "done" /\ att'[a].outcome = "undefined"
                            /\ ~Resumes(att'[a])
                       ELSE /\ att'[a].pc = "provider"
                            /\ att'[a].url = roomData.serverUrl
                            /\ att'[a].roomToken = roomData.roomToken
                            /\ att'[a].roomId = roomData.roomId
            /\ att'[a].outcome = "returned"
                 => /\ Resumes(att'[a])
                    /\ att'[a].fired = 1
                    /\ att'[a].session = [by |-> a, roomId |-> att'[a].roomId,
                                          serverUrl |-> att'[a].url, host |-> FALSE]
            /\ att'[a].outcome # "returned"
                 => (att'[a].fired = 0 /\ att'[a].session = NoSession)
            /\ \A b \in Attempts :
                 (b # a /\ att'[b].kind = "tryConnect")
                 => ~(Resumes(att'[a]) /\ Resumes(att'[b]))]_vars

\* Of two calls of tryConnect after one join, one has returned the guest
\* session of the stored room and the other has returned undefined.
C25_Witness ==
    \E a, b \in Attempts :
        /\ att[a].kind = "tryConnect" /\ att[a].outcome = "returned"
        /\ att[a].fired = 1 /\ ~att[a].session.host /\ att[a].session.roomId = 9
        /\ att[b].kind = "tryConnect" /\ att[b].outcome = "undefined"
        /\ att[b].fired = 0
        /\ roomData = NoRoomData

----------------------------------------------------------------------------
\* Properties of the process start (checked under SpecStartup)

\* The automatic action the environment asks for.
Wanted(e) ==
    IF e.autoJoinRoom \notin {"", " "} THEN "join"
    ELSE IF e.instanceId /\ e.username THEN "create"
    ELSE "none"
\* activate() ends in this step.
ActivateEnds == activation.pc = "tryConnect" /\ activation'.pc \in {"done", "resumed"}
SilentAttempts == {a \in Attempts : att[a].kind \in Silent}

C27_NothingEscapes ==
    \A a \in Attempts :
        att[a].kind \in Creates \cup Joins => a \notin unhandled

----------------------------------------------------------------------------
\* Further properties of the automation endpoint

\* Two ways of writing one server.
SameServer(u, v) == normalizeServerUri(u) = normalizeServerUri(v)

\* C28 (create on the given server): the exchange of a create request that
\* names a serverUrl is made on that server, and the serverUrl of its success
\* response is that server, not the configured one.
C28_CreateOnGivenServer ==
    \A r \in Requests :
        (req[r].action = "create" /\ req[r].serverUrl # "")
        => /\ (req[r].att # 0 /\ (Own(r).pc = "exchange" \/ Own(r).roomToken # 0))
                => SameServer(Own(r).url, req[r].serverUrl)
           /\ (Answered(r) /\ req[r].success)
                => SameServer(req[r].bodyServerUrl, req[r].serverUrl)

\* C29 (loopback only): every HTTP server of the automation service that is
\* listening is bound to 127.0.0.1.
C29_LoopbackOnly ==
    \A i \in 1..Len(automation.made) :
        automation.made[i].state = "listening"
        => automation.made[i].host = "127.0.0.1"

----------------------------------------------------------------------------
\* The interactive create, step by step (checked under Spec)

\* The order of the positions of createRoom.
Rank(pc) ==
    CASE pc = "idle" -> 0
      [] pc = "provider" -> 1
      [] pc = "exchange" -> 2
      [] pc = "storeToken" -> 3
      [] pc = "connect" -> 4
      [] pc = "clipboard" -> 5
      [] OTHER -> 6

----------------------------------------------------------------------------
\* The pending room data (checked under Spec)

\* C31 (who writes the room data): the stored room data change only when a
\* call of tryConnect consumes them or when a join (joinRoom, joinRoomSilent)
\* whose exchange has succeeded stores the server URL, room token, room id and
\* host of that exchange; no create writes or clears them, and a join that ends
\* failed or cancelled (one of its awaited calls has thrown) has not written
\* them.
C31_RoomDataWrittenByJoin ==
    /\ [][roomData' # roomData
            => \/ \E a \in Attempts :
                    /\ att[a].kind = "tryConnect" /\ att[a].pc = "consume"
                    /\ roomData' = NoRoomData
               \/ \E a \in Attempts :
                    /\ att[a].kind \in {"joinRoom", "joinRoomSilent"}
                    /\ Passes(a, "storeRoomData")
                    /\ att[a].roomToken = IssuedToken(a)
                    /\ roomData' = RoomDataOf(a)]_vars
    /\ [](\A a \in Attempts :
            (att[a].kind \in Joins /\ Resolved(a) /\ att[a].failedAt # "none")
            => roomData # RoomDataOf(a))

----------------------------------------------------------------------------
\* The registration notifier beside later sessions

\* The startup auto-create and its notifier, with the commands of the user
\* interface creating or joining another session meanwhile.
InitRegistration ==
    /\ build = "main"
    /\ web = FALSE
    /\ serverUrlOverride = TRUE
    /\ editor = NoEditor
    /\ procEnv = StudentEnv
    /\ activation = Activated
    /\ automation = Serving(defaultPort)
    /\ autoStart = "create"
    /\ serverUrl = "s1/"
    /\ Fresh

NextRegistration ==
    \/ AutoCreate
    \/ UiCreateRoom
    \/ UiJoinRoom
    \/ FetchDone
    \/ TextDone
    \/ WaitDone
    \/ \E a \in Attempts :
        \/ InputBox(a)
        \/ RetrieveDone(a)
        \/ Callback(a)
        \/ ProviderDone(a)
        \/ ExchangeOk(a)
        \/ StoreTokenDone(a)
        \/ ConnectOk(a)
        \/ ClipboardDone(a)
        \/ StoreRoomDataDone(a)
        \/ StoreWorkspaceDone(a)
        \/ OpenFolderDone(a)
        \/ Throw(a)

SpecRegistration == InitRegistration /\ [][NextRegistration]_vars

\* C32 (captured parameters): every request of the notifier task goes to the
\* registry URL of the instance id and carries the room id and the server URL
\* that createRoomSilent returned to the callback that started the task,
\* whichever session is live when the request is issued; a running task is not
\* started again and its parameters do not change.
C32_CapturedParameters ==
    /\ [](notifier.pc # "idle"
            => /\ Len(notifier.sent) = notifier.requests
               /\ \A i \in 1..Len(notifier.sent) :
                    notifier.sent[i] =
                        [url |-> backendUrl(procEnv.instanceId),
                         roomId |-> IssuedRoom(notifier.of),
                         serverUrl |-> normalizeServerUri(serverUrl)])
    /\ [][notifier.pc # "idle"
            => /\ notifier'.params = notifier.params
               /\ notifier'.starts = notifier.starts
               /\ \A i \in 1..Len(notifier.sent) : notifier'.sent[i] = notifier.sent[i]]_vars

\* The task has issued a request while the session of a later createRoom on
\* the user interface was the live one.
C32_Witness ==
    /\ notifier.pc = "fetch"
    /\ notifier.requests >= 2
    /\ LET live == notifier.liveAt[notifier.requests]
       IN  /\ live # notifier.of
           /\ live > notifier.of
           /\ att[live].kind = "createRoom"
           /\ att[live].roomId # notifier.params.roomId

----------------------------------------------------------------------------
\* The promise of an operation

\* C33 (completion): the promise that createRoom, joinRoom, createRoomSilent
\* or joinRoomSilent returned has settled only if the attempt is resolved: its
\* "joined" event has been fired or its failure or cancellation has been
\* handled; it has not settled while the exchange is in flight.
C33_SettlesWhenResolved ==
    \A a \in Attempts :
        (att[a].kind \in FourOperations /\ att[a].settled) => Resolved(a)

----------------------------------------------------------------------------
\* The override prompt of joinRoom

\* The "join room" command with invitation codes that may embed the server
\* "s2", under every server URL setting and both override settings.
PromptUrls == {"", "s1", "s2"}

InitOverride ==
    /\ build = "main"
    /\ web = FALSE
    /\ serverUrlOverride \in BOOLEAN
    /\ editor = NoEditor
    /\ procEnv = PlainEnv
    /\ activation = Activated
    /\ automation = Serving(defaultPort)
    /\ autoStart = "none"
    /\ serverUrl \in PromptUrls
    /\ Fresh

NextOverride ==
    \/ UiJoinRoom
    \/ \E a \in Attempts :
        \/ InputBox(a)
        \/ PromptAnswered(a)
        \/ SettingWritten(a)
        \/ Callback(a)
        \/ ExchangeOk(a)
        \/ StoreTokenDone(a)
        \/ StoreRoomDataDone(a)
        \/ StoreWorkspaceDone(a)
        \/ OpenFolderDone(a)
        \/ Throw(a)

SpecOverride == InitOverride /\ [][NextOverride]_vars

\* joinRoom of attempt a parses its invitation code in this step.
Parses(a) ==
    /\ att'[a].kind = "joinRoom"
    /\ att[a].pc \in {"idle", "input"}
    /\ att'[a].pc \notin {"idle", "input"}
    /\ att'[a].outcome # "abandoned" \/ att'[a].shown # <<>>

\* C34 (override prompt): a joinRoom whose invitation code embeds a server URL
\* shows the override prompt if and only if that URL differs from the server
\* URL setting and the override setting is enabled, a join without an embedded
\* URL never shows it; the update that follows "Never" disables the override
\* setting, which nothing enables again, so that no join that parses its code
\* after it shows the prompt; the update that follows "Yes" sets the server URL
\* setting to the embedded URL; "No" and a dismissal update nothing; and the
\* exchange of the join is made on the embedded server whatever the answer.
C34_OverridePrompt ==
    [][/\ \A a \in Attempts :
            /\ Parses(a)
                 => (att'[a].ask.pc = "open"
                       <=> /\ att'[a].parsedUrl # ""
                           /\ att'[a].parsedUrl # serverUrl
                           /\ serverUrlOverride)
            /\ att'[a].ask.pc # "none"
                 => att'[a].kind = "joinRoom" /\ att'[a].ask.url = att'[a].parsedUrl
            /\ (att[a].ask.pc = "open" /\ att'[a].ask.pc # "open")
                 => /\ att'[a].ask.pc = (IF att'[a].ask.choice \in {"yes", "never"}
                                         THEN "writing" ELSE "done")
                    /\ serverUrl' = serverUrl
                    /\ serverUrlOverride' = serverUrlOverride
            /\ (att[a].ask.pc = "writing" /\ att'[a].ask.pc # "writing")
                 => IF att[a].ask.choice = "yes"
                    THEN serverUrl' = att[a].parsedUrl
                         /\ serverUrlOverride' = serverUrlOverride
                    ELSE serverUrlOverride' = FALSE /\ serverUrl' = serverUrl
            /\ (att'[a].pc = "exchange" /\ att'[a].parsedUrl # "")
                 => att'[a].url = att'[a].parsedUrl
       /\ (serverUrl' # serverUrl \/ serverUrlOverride' # serverUrlOverride)
            => \E a \in Attempts : att[a].ask.pc = "writing" /\ att'[a].ask.pc = "done"
       /\ serverUrlOverride' => serverUrlOverride]_vars

\* The prompt of one join was answered "Never" and the override setting is
\* disabled; a later join whose code embeds "s2" while "s1" is configured has
\* shown no prompt and has issued its exchange on "s2".
C34_Witness ==
    \E a, b \in Attempts :
        /\ a < b
        /\ att[a].ask.choice = "never" /\ att[a].ask.pc = "done"
        /\ ~serverUrlOverride
        /\ serverUrl = "s1"
        /\ att[b].kind = "joinRoom" /\ att[b].parsedUrl = "s2"
        /\ att[b].ask.pc = "none"
        /\ att[b].pc = "exchange" /\ att[b].url = "s2"

----------------------------------------------------------------------------
\* The temporary server URL of an automation request

\* The endpoint of automation-service.ts with create and join commands, with
\* and without a server URL setting.
InitRestore ==
    /\ build = "main"
    /\ web = FALSE
    /\ serverUrlOverride = TRUE
    /\ editor = NoEditor
    /\ procEnv = PlainEnv
    /\ activation = Activated
    /\ automation = Serving(defaultPort)
    /\ autoStart = "none"
    /\ serverUrl \in ConfiguredUrls
    /\ Fresh

NextRestore ==
    \/ \E r \in Requests : Post(r) \/ OverrideDone(r) \/ RestoreDone(r)
    \/ \E a \in Attempts :
        \/ Callback(a)
        \/ ExchangeOk(a)
        \/ StoreTokenDone(a)
        \/ ConnectOk(a)
        \/ ClipboardDone(a)
        \/ StoreRoomDataDone(a)
        \/ StoreWorkspaceDone(a)
        \/ OpenFolderDone(a)
        \/ Throw(a)

SpecRestore == InitRestore /\ [][NextRestore]_vars

\* C35 (setting restored): when the response to a create or join request that
\* named a serverUrl is sent, with success or with failure, the server URL
\* setting has the value it had when the request arrived.
C35_SettingRestored ==
    [][\A r \in Requests :
         (/\ req[r].pc \in {"override", "waiting", "restore"}
          /\ req'[r].pc = "responded"
          /\ req[r].serverUrl # "")
         => serverUrl' = req[r].before]_vars

----------------------------------------------------------------------------
\* Silent operations and the outer cancellation source (checked under Spec)

\* C36 (silent operations leave the outer source alone): no step of a
\* createRoomSilent or joinRoomSilent cancels or replaces the outer
\* cancellation source or aborts the exchange of an interactive attempt; a
\* silent operation holds no outer token and is never aborted, so a step in
\* which an interactive attempt replaces the outer source leaves every silent
\* operation as it was.
C36_SilentLeavesOuterSource ==
    [][\A a \in Attempts :
         att'[a].kind \in Silent
         => /\ att'[a].outer = 0
            /\ ~att'[a].aborted
            /\ att'[a].outcome \notin {"cancelled", "ignored"}
            /\ att'[a] # att[a]
                 => /\ tokenSource' = tokenSource
                    /\ cancelled' = cancelled
                    /\ \A b \in Attempts :
                         att[b].kind \in Interactive
                         => att'[b].aborted = att[b].aborted
            /\ (tokenSource' # tokenSource \/ cancelled' # cancelled)
                 => att'[a] = att[a]]_vars

\* An interactive create waits for its exchange with its signal not aborted
\* and its outer token live, after a silent operation that was called later
\* has run to its successful end.
C36_Witness ==
    \E a, b \in Attempts :
        /\ a < b
        /\ att[a].kind = "createRoom" /\ att[a].pc = "exchange"
        /\ ~att[a].aborted /\ att[a].outer = tokenSource
        /\ att[a].outer \notin cancelled
        /\ att[b].kind \in Silent /\ att[b].pc = "done"
        /\ att[b].outcome \in {"returned", "true"}

----------------------------------------------------------------------------
\* Attempts that are given up before their exchange (checked under Spec)

\* C37 (abandoned attempts): an interactive join or create that is given up
\* before its exchange, because no invitation code was entered, the code does
\* not parse or no server URL is configured, has made no exchange and taken no
\* outer token; the step in which it is given up changes neither the
\* credential store nor the stored room data nor the outer cancellation source
\* nor any other attempt, an attempt in flight included.
C37_AbandonedTouchesNothing ==
    [][\A a \in Attempts :
         att'[a].outcome = "abandoned"
         => /\ att'[a].kind \in Interactive
            /\ att'[a].pc = "done"
            /\ att'[a].roomToken = 0 /\ att'[a].login = 0
            /\ att'[a].outer = 0
            /\ att'[a].fired = 0
            /\ att[a].outcome # "abandoned"
                 => /\ att[a].pc \in {"idle", "input"}
                    /\ userTokens' = userTokens
                    /\ roomData' = roomData
                    /\ tokenSource' = tokenSource
                    /\ cancelled' = cancelled
                    /\ \A b \in Attempts : b # a => att'[b] = att[b]]_vars

\* No server URL is configured: a join on the server of its invitation code
\* waits for its exchange, not aborted and with its outer token live, after a
\* later create was given up for want of a server URL.
C37_Witness ==
    \E a, b \in Attempts :
        /\ a < b
        /\ serverUrl = ""
        /\ att[a].kind = "joinRoom" /\ att[a].pc = "exchange" /\ att[a].url = "s2"
        /\ ~att[a].aborted /\ att[a].outer = tokenSource /\ att[a].outer \notin cancelled
        /\ att[b].kind = "createRoom" /\ att[b].outcome = "abandoned"
        /\ att[b].shown = <<"info:no-server">>

----------------------------------------------------------------------------
\* A join that is superseded during its exchange (checked under Spec)

----------------------------------------------------------------------------
\* The HTTP server of the automation service (checked under SpecServer)

\* Server i has been created and not been told to close.
Open(i) == automation.made[i].state \in {"starting", "listening"}

----------------------------------------------------------------------------
\* The resume at the process start (checked under SpecStartup)

\* activate() has scheduled an automatic action, a silent operation has been
\* started, or the notifier has been started.
Scheduled ==
    \/ autoStart # "none"
    \/ \E a \in Attempts : att[a].kind \in Silent
    \/ notifier # NoNotifier

\* C40 (the resume comes first): when tryConnect found room data of a previous
\* join and returned a session, activate() schedules no automatic join or
\* create and the notifier is never started, whatever the environment
\* variables are; the environment is consulted, and an automatic action
\* scheduled, only after tryConnect has found no room data and returned
\* undefined.
C40_ResumeSchedulesNothing ==
    /\ activation.pc = "resumed"
         => /\ att[activation.att].outcome = "returned"
            /\ att[activation.att].roomId = PendingRoomData.roomId
            /\ ~Scheduled
    /\ activation.pc = "done" => att[activation.att].outcome = "undefined"
    /\ Scheduled
         => /\ activation.pc = "done"
            /\ att[activation.att].kind = "tryConnect"
            /\ att[activation.att].outcome = "undefined"
            /\ att[activation.att].roomId = 0

\* All three variables are set, the room data of the previous join have been
\* consumed and the session is resumed: activate() has returned and nothing
\* is scheduled.
C40_Witness ==
    /\ procEnv = [autoJoinRoom |-> "9", instanceId |-> TRUE, username |-> TRUE]
    /\ activation.pc = "resumed"
    /\ roomData = NoRoomData
    /\ Current = activation.att
    /\ autoStart = "none"
    /\ notifier = NoNotifier

====
